---- MODULE Spec2Model ----
(***************************************************************************)
(* A model of src/core/hle/result.h: the packed Result word, ResultRange,  *)
(* ResultVal<T> and the propagation macros; and of three members of the    *)
(* Vulkan Device: CheckSuitability, SetupFamilies and GetSupportedFormat.  *)
(*                                                                         *)
(* Each part of the header has its own specification over its own         *)
(* variables; the variables of the other parts keep their idle values.     *)
(***************************************************************************)
EXTENDS Naturals, Integers, Sequences, FiniteSets, TLC

VARIABLES
    result,     \* Result::raw of the Result under test
    origin,     \* the constructor call that built it, with its arguments
    view,       \* what the accessors returned when last read
    range,      \* the ResultRange under test: code, description_end
    rangeArgs,  \* the arguments of its constructor
    other,      \* the Result handed to ResultRange::Includes
    otherArgs,  \* the arguments `other` was constructed from
    rangeOut,   \* what Includes / operator Result returned
    rv,         \* the ResultVal<T> under test: its `expected` member
    rvArgs,     \* the constructor call that built it, with its arguments
    rvOut,      \* what its accessors returned, or that Unwrap asserted
    prog,       \* the text of the enclosing function: its guard, its
                \* propagation macro, the Result of its last return statement
    sub,        \* what the sub-call returned to the enclosing function
    frame,      \* the activation of the enclosing function
    cmp,        \* what Result::Includes and operator== returned for
                \* `result` and `other`
    scope,      \* the activation of a function with guards in nested blocks
    stack,      \* the call stack of a chain of functions, innermost last
    finished,   \* the activations of the chain that have returned
    threads,    \* the activation each thread runs
    ambient,    \* the namespace-scope constant __TmpCurrentResultReference
    device,     \* the Device and the physical device behind it, as far as
                \* the member under test reads them, with the call's arguments
    devOut      \* how the member under test ended and what it assigned

resultVars == <<result, origin, view>>
rangeVars == <<range, rangeArgs, other, otherArgs, rangeOut>>
valVars == <<rv, rvArgs, rvOut>>
propVars == <<prog, sub, frame>>
cmpVars == <<cmp>>
scopeVars == <<scope>>
chainVars == <<stack, finished>>
threadVars == <<threads, ambient>>
deviceVars == <<device, devOut>>
vars == <<result, origin, view, range, rangeArgs, other, otherArgs, rangeOut,
          rv, rvArgs, rvOut, prog, sub, frame, cmp, scope, stack, finished,
          threads, ambient, device, devOut>>

----------------------------------------------------------------------------
(* Bounds of the model and constants of the program *)

\* inputs 0..SmallMax are enumerated beside the boundary values of each field
SmallMax == 2

\* the values of T held by a ResultVal<T> are 0..MaxValue
MaxValue == 2

WordBits == 32
ModulePos == 0
ModuleBits == 9
DescriptionPos == 9
DescriptionBits == 13

Common == 0
Kernel == 1
FS == 2
GeneralWebApplet == 800
ShopN == 811

----------------------------------------------------------------------------
(* u32 arithmetic.  A u32 word is the set of the positions of its 1 bits,  *)
(* a subset of 0..31, so that all 32 bits are kept.                        *)

BitPositions == 0..(WordBits - 1)

\* the word of a natural number below 2^31
ToWord(n) == {i \in 0..(WordBits - 2) : (n \div 2^i) % 2 = 1}

\* the natural number of a word whose top bit is clear
RECURSIVE ToNat(_)
ToNat(w) ==
    IF w = {} THEN 0
    ELSE LET i == CHOOSE j \in w : TRUE IN 2^i + ToNat(w \ {i})

UINT32_MAX == BitPositions

BitAnd(a, b) == a \cap b

BitOr(a, b) == a \cup b

ShiftLeft(w, n) == {i + n : i \in w} \cap BitPositions

ShiftRight(w, n) == {i - n : i \in {j \in w : j >= n}}

\* a <= b on u32: equal, or the highest bit in which they differ is b's
LeqWord(a, b) ==
    \/ a = b
    \/ \E i \in b \ a : \A j \in (a \ b) : j < i

\* ErrorModule arguments: small ids, the ends of the 9-bit field, and
\* enumerators that do not fit in it
ModuleInputs ==
    (0..SmallMax) \cup {2^(ModuleBits - 1), 2^ModuleBits - 1}
                  \cup {GeneralWebApplet, ShopN}

\* description arguments: small codes, the ends of the 13-bit field, and
\* values beyond it
DescriptionInputs ==
    (0..SmallMax) \cup {42, 2^(DescriptionBits - 1), 2^DescriptionBits - 1}
                  \cup {2^DescriptionBits, 2^DescriptionBits + 1}

\* description_end arguments (a plain u32, not a bit field)
EndInputs ==
    {ToWord(n) : n \in (0..SmallMax) \cup {42, 2^DescriptionBits - 1, 9999}}
        \cup {UINT32_MAX}

\* raw words for Result(u32)
RawInputs ==
    {ToWord(n) : n \in (0..SmallMax) \cup
                       {2^ModuleBits, 2^(ModuleBits + DescriptionBits) - 1,
                        2^(ModuleBits + DescriptionBits)}}
        \cup {{WordBits - 1}, UINT32_MAX}

----------------------------------------------------------------------------
(* BitField<position, bits, T> over a u32 storage *)

\* BitField::mask
Mask(position, bits) == ShiftLeft(ToWord(2^bits - 1), position)

\* BitField::FormatValue: the value shifted into place, bits outside the
\* field dropped
FormatValue(position, bits, value) ==
    BitAnd(ShiftLeft(ToWord(value), position), Mask(position, bits))

\* BitField::Value / ExtractValue for an unsigned field
ExtractValue(position, bits, storage) ==
    ToNat(ShiftRight(BitAnd(storage, Mask(position, bits)), position))

----------------------------------------------------------------------------
(* union Result *)

\* Result(ErrorModule module_, u32 description_), but one that forgets the
\* description's position
ResultNoShift(module_, description_) ==
    BitOr(FormatValue(ModulePos, ModuleBits, module_),
          FormatValue(ModulePos, DescriptionBits, description_))

\* a faulty constructor that places the description one bit too low
ResultDescriptionLow(module_, description_) ==
    BitOr(FormatValue(ModulePos, ModuleBits, module_),
          FormatValue(DescriptionPos - 1, DescriptionBits, description_))

\* a faulty constructor that leaves the fields unmasked
ResultUnmasked(module_, description_) ==
    BitOr(ShiftLeft(ToWord(module_), ModulePos),
          ShiftLeft(ToWord(description_), DescriptionPos))

\* Result(ErrorModule module_, u32 description_)
ResultMD(module_, description_) ==
    BitOr(FormatValue(ModulePos, ModuleBits, module_),
          FormatValue(DescriptionPos, DescriptionBits, description_))

\* Result(u32 raw_)
ResultRaw(raw_) == raw_

\* Result::module (read through BitField::Value)
Module(r) == ExtractValue(ModulePos, ModuleBits, r)

\* Result::description
Description(r) == ExtractValue(DescriptionPos, DescriptionBits, r)

\* a faulty IsSuccess that tests the module field alone
IsSuccessModuleOnly(r) == Module(r) = 0

IsSuccess(r) == r = ToWord(0)

IsError(r) == ~IsSuccess(r)

\* a faulty IsFailure that tests the description field alone
IsFailureDescriptionOnly(r) == Description(r) # 0

IsFailure(r) == ~IsSuccess(r)

GetInnerValue(r) ==
    BitOr(ToWord(Module(r)), ShiftLeft(ToWord(Description(r)), ModuleBits))

\* a faulty Includes that compares the whole words
ResultIncludesRaw(r, s) == r = s

ResultIncludes(r, s) == GetInnerValue(r) = GetInnerValue(s)

ResultEquals(a, b) == a = b

ResultSuccess == ResultRaw(ToWord(0))

ResultUnknown == ResultRaw(UINT32_MAX)

----------------------------------------------------------------------------
(* class ResultRange *)

\* a faulty constructor that starts the range one description late
ResultRangeOffByOne(module_, description_start, description_end_) ==
    [code |-> ResultMD(module_, description_start + 1),
     description_end |-> description_end_]

\* ResultRange(ErrorModule module, u32 description_start, u32 description_end_)
ResultRange(module_, description_start, description_end_) ==
    [code |-> ResultMD(module_, description_start),
     description_end |-> description_end_]

\* ResultRange::operator Result
RangeToResult(rr) == rr.code

\* ResultRange::Includes
RangeIncludes(rr, o) ==
    /\ Module(rr.code) = Module(o)
    /\ Description(rr.code) <= Description(o)
    /\ LeqWord(ToWord(Description(o)), rr.description_end)

----------------------------------------------------------------------------
(* Common::Expected<T, Result> and the assertion macro *)

\* Expected holding a value
ExpectedValue(v) == [has_value |-> TRUE, value |-> v, error |-> {}]

\* Expected built from Common::Unexpected(code)
Unexpected(code) == [has_value |-> FALSE, value |-> 0, error |-> code]

\* what a call that may assert yields: it either returns a value or stops
\* in the assertion failure
Returned(v) == [asserted |-> FALSE, returned |-> TRUE, value |-> v]
AssertFailed == [asserted |-> TRUE, returned |-> FALSE, value |-> 0]

\* ASSERT_MSG(cond, ...); then the rest of the function
AssertThen(cond, rest) == IF cond THEN rest ELSE AssertFailed

----------------------------------------------------------------------------
(* class ResultVal<T> *)

\* the values of T; T{} is 0
TValues == 0..MaxValue
TDefault == 0

\* ResultVal()
ResultValDefault == ExpectedValue(TDefault)

\* ResultVal(Result code)
ResultValFromResult(code) == Unexpected(code)

\* a faulty range constructor that value-initialises instead
ResultValFromRangeAsValue(rr) == ExpectedValue(TDefault)

\* ResultVal(ResultRange range)
ResultValFromRange(rr) == Unexpected(RangeToResult(rr))

\* a faulty value constructor that value-initialises instead
ResultValDropsValue(val) == ExpectedValue(TDefault)

\* ResultVal(U&& val)
ResultValFromValue(val) == ExpectedValue(val)

\* explicit operator bool
ToBool(v) == v.has_value

\* Code()
Code(v) == IF v.has_value THEN ResultSuccess ELSE v.error

\* Succeeded()
Succeeded(v) == v.has_value

\* Failed()
Failed(v) == ~v.has_value

\* a faulty Unwrap without the assertion
UnwrapUnchecked(v) == Returned(v.value)

\* Unwrap()
Unwrap(v) == AssertThen(Succeeded(v), Returned(v.value))

\* a faulty ValueOr that reads the value whatever the state
ValueOrIgnoresFallback(v, fallback) == v.value

\* ValueOr(v): Expected::value_or
ValueOr(v, fallback) == IF v.has_value THEN v.value ELSE fallback

\* operator->(): std::addressof(expected.value()); Expected::value() checks
\* that a value is held
OperatorArrow(v) == AssertThen(v.has_value, Returned(v.value))

\* operator*(): *expected, which reads the value member unchecked. On a
\* ResultVal holding an error this is undefined behaviour (the class comment
\* says so): the outcomes are any value of T, or a trap
OperatorStar(v) ==
    IF v.has_value THEN {Returned(v.value)}
    ELSE {Returned(x) : x \in TValues} \cup {AssertFailed}

----------------------------------------------------------------------------
(* The Result specification: construct a Result, read it back *)

NoView == [read |-> FALSE, module |-> 0, description |-> 0,
           isSuccess |-> FALSE, isError |-> FALSE, isFailure |-> FALSE]

NoArgs == [ctor |-> "none", module |-> 0, description |-> 0, raw |-> {},
           asserted |-> FALSE]

IdleRange == [code |-> {}, description_end |-> {}]
NoRangeArgs == [module |-> 0, start |-> 0, end |-> {}]
NoRangeOut == [op |-> "none", includes |-> FALSE, converted |-> {}]

RangeIdle ==
    /\ range = IdleRange
    /\ rangeArgs = NoRangeArgs
    /\ other = {}
    /\ otherArgs = NoArgs
    /\ rangeOut = NoRangeOut

ResultIdle ==
    /\ result = {}
    /\ origin = NoArgs
    /\ view = NoView

NoRv == [has_value |-> FALSE, value |-> 0, error |-> {}]
NoRvArgs == [from |-> "none", value |-> 0, code |-> {},
             module |-> 0, start |-> 0, end |-> {}]
NoRvOut == [op |-> "none", succeeded |-> FALSE, failed |-> FALSE,
            bool |-> FALSE, code |-> {}, asserted |-> FALSE,
            returned |-> FALSE, value |-> 0, fallback |-> 0]

ValIdle ==
    /\ rv = NoRv
    /\ rvArgs = NoRvArgs
    /\ rvOut = NoRvOut

NoProg == [guard |-> "none", macro |-> "none", last |-> {}]
NoSub == [kind |-> "none", code |-> {}, val |-> NoRv, cond |-> FALSE,
          fromRange |-> FALSE, rangeArgs |-> NoRangeArgs]
NoFrame == [pc |-> "idle", declared |-> FALSE, slot |-> {}, target |-> 0,
            afterRan |-> FALSE, ret |-> {}, evaluated |-> 0, fired |-> 0]

PropIdle ==
    /\ prog = NoProg
    /\ sub = NoSub
    /\ frame = NoFrame

NoCmp == [calledIncludes |-> FALSE, includes |-> FALSE,
          calledEquals |-> FALSE, equals |-> FALSE]

CmpIdle == cmp = NoCmp

NoDevice == [member |-> "none"]
NoDevOut == [op |-> "none"]

DeviceIdle ==
    /\ device = NoDevice
    /\ devOut = NoDevOut

\* the storage a guard's reference is bound to, and what its destructor did
NoGuard == [declared |-> FALSE, slot |-> {}, evaluated |-> 0, fired |-> 0]

NoScope == [pc |-> "idle", outerKind |-> "none", innerKind |-> "none",
            first |-> {}, last |-> {}, ref |-> "ambient",
            outer |-> NoGuard, inner |-> NoGuard, cond |-> FALSE,
            ret |-> {}, lateStmt |-> FALSE]

ScopeIdle == scope = NoScope

ChainIdle ==
    /\ stack = <<>>
    /\ finished = <<>>

\* no thread runs; the namespace-scope constant is ResultSuccess
ThreadIdle ==
    /\ threads = <<>>
    /\ ambient = ResultSuccess

\* the outcome of Result(module_, description_): the constructor has an empty
\* body and checks nothing, it returns whatever the initialiser packed
ConstructResult(module_, description_) ==
    Returned(ResultMD(module_, description_))

\* Result() = default leaves raw indeterminate
Init ==
    /\ DeviceIdle
    /\ result \in RawInputs
    /\ origin = [NoArgs EXCEPT !.ctor = "default"]
    /\ view = NoView
    /\ RangeIdle
    /\ ValIdle
    /\ PropIdle
    /\ CmpIdle /\ ScopeIdle /\ ChainIdle /\ ThreadIdle

\* Result r(module_, description_)
Construct ==
    \E m \in ModuleInputs, d \in DescriptionInputs :
        /\ result' = ConstructResult(m, d).value
        /\ origin' = [NoArgs EXCEPT !.ctor = "md", !.module = m,
                                    !.description = d,
                                    !.asserted = ConstructResult(m, d).asserted]
        /\ view' = NoView
        /\ UNCHANGED <<rangeVars, valVars, propVars>>
        /\ UNCHANGED <<cmpVars, scopeVars, chainVars, threadVars,
                   deviceVars>>

\* Result r(raw_)
ConstructRaw ==
    \E w \in RawInputs :
        /\ result' = ResultRaw(w)
        /\ origin' = [NoArgs EXCEPT !.ctor = "raw", !.raw = w]
        /\ view' = NoView
        /\ UNCHANGED <<rangeVars, valVars, propVars>>
        /\ UNCHANGED <<cmpVars, scopeVars, chainVars, threadVars,
                   deviceVars>>

\* r.module, r.description, r.IsSuccess(), r.IsError(), r.IsFailure()
ReadBack ==
    /\ ~view.read
    /\ view' = [read |-> TRUE,
                module |-> Module(result),
                description |-> Description(result),
                isSuccess |-> IsSuccess(result),
                isError |-> IsError(result),
                isFailure |-> IsFailure(result)]
    /\ UNCHANGED <<result, origin>>
    /\ UNCHANGED <<rangeVars, valVars, propVars>>
    /\ UNCHANGED <<cmpVars, scopeVars, chainVars, threadVars,
                   deviceVars>>

Next == Construct \/ ConstructRaw \/ ReadBack

Spec == Init /\ [][Next]_vars

----------------------------------------------------------------------------
(* Properties of Result *)

\* the arguments of Result(module_, description_) fit their bit fields
InFieldRange(args) ==
    /\ args.module <= 2^ModuleBits - 1
    /\ args.description <= 2^DescriptionBits - 1

\* C1: for m in 0..511 and d in 0..8191, reading module and description of
\* Result(m, d) gives back (m, d).
C1_RoundTrip ==
    (view.read /\ origin.ctor = "md" /\ InFieldRange(origin))
        => /\ view.module = origin.module
           /\ view.description = origin.description

C1_Witness ==
    /\ view.read
    /\ origin.ctor = "md"
    /\ origin.module = 2^ModuleBits - 1
    /\ origin.description = 2^DescriptionBits - 1
    /\ view.module = 2^ModuleBits - 1
    /\ view.description = 2^DescriptionBits - 1

\* C2: for m in 0..511 and d in 0..8191, the raw word of Result(m, d) is
\* m + d * 2^9: module in bits 0..8, description in bits 9..21, bits 22..31
\* zero.
C2_Layout ==
    (origin.ctor = "md" /\ InFieldRange(origin))
        => /\ result = ToWord(origin.module + origin.description * 2^9)
           /\ BitAnd(result, ToWord(2^9 - 1)) = ToWord(origin.module)
           /\ ShiftRight(result, 9) = ToWord(origin.description)
           /\ result \cap (22..31) = {}

C2_Witness ==
    /\ origin.ctor = "md"
    /\ origin.module = FS
    /\ origin.description = 42
    /\ result = ToWord(21506)

\* C3: Result(Common, 0) has raw value 0 and equals ResultSuccess; IsSuccess
\* holds only for raw value 0, so Result(m, d).IsSuccess() is false for every
\* in-range (m, d) other than (0, 0).
C3_SuccessIsZero ==
    /\ ResultMD(Common, 0) = ToWord(0)
    /\ ResultEquals(ResultMD(Common, 0), ResultSuccess)
    /\ view.read => (view.isSuccess <=> result = ToWord(0))
    /\ (view.read /\ origin.ctor = "md" /\ InFieldRange(origin)
            /\ <<origin.module, origin.description>> # <<Common, 0>>)
        => ~view.isSuccess

C3_Witness ==
    /\ view.read
    /\ origin.ctor = "md"
    /\ origin.module = Common
    /\ origin.description = 1
    /\ ~view.isSuccess

\* C4: for every Result, also one built from an arbitrary raw word, exactly
\* one of IsSuccess and IsFailure holds, and IsError agrees with IsFailure.
C4_ExactlyOne ==
    view.read => /\ view.isSuccess # view.isFailure
                 /\ view.isError = view.isFailure

C4_Witness ==
    /\ view.read
    /\ origin.ctor = "raw"
    /\ result = {WordBits - 1}
    /\ view.isFailure
    /\ ~view.isSuccess

----------------------------------------------------------------------------
(* The ResultRange specification: a constant range, probed with Results *)

InitRange ==
    /\ DeviceIdle
    /\ ResultIdle
    /\ \E m \in ModuleInputs, lo \in DescriptionInputs, hi \in EndInputs :
        /\ range = ResultRange(m, lo, hi)
        /\ rangeArgs = [module |-> m, start |-> lo, end |-> hi]
    /\ other = {}
    /\ otherArgs = NoArgs
    /\ rangeOut = NoRangeOut
    /\ ValIdle
    /\ PropIdle
    /\ CmpIdle /\ ScopeIdle /\ ChainIdle /\ ThreadIdle

\* range.Includes(Result(m2, d))
CallIncludes ==
    \E m2 \in ModuleInputs, d \in DescriptionInputs :
        /\ rangeOut.op = "none"
        /\ other' = ResultMD(m2, d)
        /\ otherArgs' = [NoArgs EXCEPT !.ctor = "md", !.module = m2,
                                       !.description = d]
        /\ rangeOut' = [op |-> "Includes",
                        includes |-> RangeIncludes(range, ResultMD(m2, d)),
                        converted |-> {}]
        /\ UNCHANGED <<range, rangeArgs>>
        /\ UNCHANGED <<resultVars, valVars, propVars, cmpVars, scopeVars,
                   chainVars, threadVars,
                   deviceVars>>

\* static_cast<Result>(range)
CallConvert ==
    /\ rangeOut.op = "none"
    /\ rangeOut' = [op |-> "Result", includes |-> FALSE,
                    converted |-> RangeToResult(range)]
    /\ UNCHANGED <<range, rangeArgs, other, otherArgs>>
    /\ UNCHANGED <<resultVars, valVars, propVars, cmpVars, scopeVars,
                   chainVars, threadVars,
                   deviceVars>>

NextRange == CallIncludes \/ CallConvert

SpecRange == InitRange /\ [][NextRange]_vars

----------------------------------------------------------------------------
(* Properties of ResultRange *)

\* C5: ResultRange(M, lo, hi).Includes(Result(M2, d)) is true if and only if
\* M2 = M and lo <= d <= hi, for every range and every Result.
C5_IncludesIffInRange ==
    rangeOut.op = "Includes"
        => (rangeOut.includes
              <=> /\ otherArgs.module = rangeArgs.module
                  /\ rangeArgs.start <= otherArgs.description
                  /\ LeqWord(ToWord(otherArgs.description), rangeArgs.end))

\* C6: converting ResultRange(M, lo, hi) to Result yields Result(M, lo),
\* whatever hi is.
C6_ConvertsToStart ==
    rangeOut.op = "Result"
        => /\ rangeOut.converted = ResultMD(rangeArgs.module, rangeArgs.start)
           /\ InFieldRange([module |-> rangeArgs.module,
                            description |-> rangeArgs.start])
                => /\ Module(rangeOut.converted) = rangeArgs.module
                   /\ Description(rangeOut.converted) = rangeArgs.start

C6_Witness ==
    /\ rangeOut.op = "Result"
    /\ rangeArgs.module = FS
    /\ rangeArgs.start = 1
    /\ rangeArgs.end = ToWord(42)
    /\ rangeOut.converted = ToWord(FS + 2^9)

----------------------------------------------------------------------------
(* The ResultVal specification: a ResultVal is constructed once, at a      *)
(* return point, and then queried or unwrapped by its receiver.            *)

\* Result codes handed to ResultVal(Result)
CodeInputs ==
    {ResultMD(m, d) : m \in ModuleInputs, d \in DescriptionInputs}
        \cup {ResultSuccess, ResultUnknown}

\* ResultVal<T> v;
InitVal ==
    /\ DeviceIdle
    /\ ResultIdle
    /\ RangeIdle
    /\ rv = ResultValDefault
    /\ rvArgs = [NoRvArgs EXCEPT !.from = "default"]
    /\ rvOut = NoRvOut
    /\ PropIdle
    /\ CmpIdle /\ ScopeIdle /\ ChainIdle /\ ThreadIdle

\* v = ResultVal<T>(val)
MakeFromValue ==
    \E val \in TValues :
        /\ rvArgs.from = "default" /\ rvOut.op = "none"
        /\ rv' = ResultValFromValue(val)
        /\ rvArgs' = [NoRvArgs EXCEPT !.from = "value", !.value = val]
        /\ UNCHANGED <<rvOut, resultVars, rangeVars, propVars, cmpVars, scopeVars,
                   chainVars, threadVars,
                   deviceVars>>

\* v = ResultVal<T>(code)
MakeFromResult ==
    \E code \in CodeInputs :
        /\ rvArgs.from = "default" /\ rvOut.op = "none"
        /\ rv' = ResultValFromResult(code)
        /\ rvArgs' = [NoRvArgs EXCEPT !.from = "result", !.code = code]
        /\ UNCHANGED <<rvOut, resultVars, rangeVars, propVars, cmpVars, scopeVars,
                   chainVars, threadVars,
                   deviceVars>>

\* v = ResultVal<T>(ResultRange(m, lo, hi))
MakeFromRange ==
    \E m \in ModuleInputs, lo \in DescriptionInputs, hi \in EndInputs :
        /\ rvArgs.from = "default" /\ rvOut.op = "none"
        /\ rv' = ResultValFromRange(ResultRange(m, lo, hi))
        /\ rvArgs' = [NoRvArgs EXCEPT !.from = "range", !.module = m,
                                      !.start = lo, !.end = hi]
        /\ UNCHANGED <<rvOut, resultVars, rangeVars, propVars, cmpVars, scopeVars,
                   chainVars, threadVars,
                   deviceVars>>

\* v.Succeeded(), v.Failed(), bool(v), v.Code()
Query ==
    /\ rvOut.op = "none"
    /\ rvOut' = [NoRvOut EXCEPT !.op = "query",
                                !.succeeded = Succeeded(rv),
                                !.failed = Failed(rv),
                                !.bool = ToBool(rv),
                                !.code = Code(rv)]
    /\ UNCHANGED <<rv, rvArgs, resultVars, rangeVars, propVars, cmpVars, scopeVars,
                   chainVars, threadVars,
                   deviceVars>>

\* v.Unwrap(): nothing runs after a failed assertion
CallUnwrap ==
    /\ rvOut.op \in {"none", "query"}
    /\ LET u == Unwrap(rv) IN
        rvOut' = [rvOut EXCEPT !.op = "Unwrap",
                               !.asserted = u.asserted,
                               !.returned = u.returned,
                               !.value = u.value]
    /\ UNCHANGED <<rv, rvArgs, resultVars, rangeVars, propVars, cmpVars, scopeVars,
                   chainVars, threadVars,
                   deviceVars>>

\* *v
CallOperatorStar ==
    \E u \in OperatorStar(rv) :
        /\ rvOut.op \in {"none", "query"}
        /\ rvOut' = [rvOut EXCEPT !.op = "operator*",
                                  !.asserted = u.asserted,
                                  !.returned = u.returned,
                                  !.value = u.value]
        /\ UNCHANGED <<rv, rvArgs, resultVars, rangeVars, propVars, cmpVars,
                       scopeVars, chainVars, threadVars,
                   deviceVars>>

\* v.operator->()
CallOperatorArrow ==
    /\ rvOut.op \in {"none", "query"}
    /\ LET u == OperatorArrow(rv) IN
        rvOut' = [rvOut EXCEPT !.op = "operator->",
                               !.asserted = u.asserted,
                               !.returned = u.returned,
                               !.value = u.value]
    /\ UNCHANGED <<rv, rvArgs, resultVars, rangeVars, propVars, cmpVars,
                   scopeVars, chainVars, threadVars,
                   deviceVars>>

\* v.ValueOr(fallback): returns, there is no assertion on this path
CallValueOr ==
    \E fb \in TValues :
        /\ rvOut.op \in {"none", "query"}
        /\ rvOut' = [rvOut EXCEPT !.op = "ValueOr",
                                  !.fallback = fb,
                                  !.asserted = FALSE,
                                  !.returned = TRUE,
                                  !.value = ValueOr(rv, fb)]
        /\ UNCHANGED <<rv, rvArgs, resultVars, rangeVars, propVars, cmpVars,
                       scopeVars, chainVars, threadVars,
                   deviceVars>>

NextVal ==
    \/ MakeFromValue
    \/ MakeFromResult
    \/ MakeFromRange
    \/ Query
    \/ CallUnwrap
    \/ CallOperatorStar
    \/ CallOperatorArrow
    \/ CallValueOr

SpecVal == InitVal /\ [][NextVal]_vars

----------------------------------------------------------------------------
(* Properties of ResultVal *)

\* C7: a ResultVal constructed from a value v is in the success state:
\* Succeeded() and the boolean conversion are true, Failed() is false, Code()
\* is ResultSuccess, and Unwrap() returns v.
C7_ValueState ==
    rvArgs.from = "value"
        => /\ rvOut.op = "query"
                => /\ rvOut.succeeded
                   /\ ~rvOut.failed
                   /\ rvOut.bool
                   /\ ResultEquals(rvOut.code, ResultSuccess)
           /\ rvOut.op = "Unwrap"
                => /\ rvOut.returned
                   /\ ~rvOut.asserted
                   /\ rvOut.value = rvArgs.value

C7_Witness ==
    /\ rvArgs.from = "value"
    /\ rvArgs.value = MaxValue
    /\ rvOut.op = "Unwrap"
    /\ rvOut.succeeded
    /\ rvOut.value = MaxValue

\* C8: a ResultVal constructed from a failure code E (E # ResultSuccess) is
\* in the failure state: Failed() is true, Succeeded() is false, Code() is E,
\* and Unwrap() stops in the assertion failure without returning a value.
C8_FailureState ==
    (rvArgs.from = "result" /\ ~ResultEquals(rvArgs.code, ResultSuccess))
        => /\ rvOut.op = "query"
                => /\ rvOut.failed
                   /\ ~rvOut.succeeded
                   /\ ~rvOut.bool
                   /\ ResultEquals(rvOut.code, rvArgs.code)
           /\ rvOut.op = "Unwrap"
                => /\ rvOut.asserted
                   /\ ~rvOut.returned

C8_Witness ==
    /\ rvArgs.from = "result"
    /\ rvArgs.code = ResultMD(FS, 42)
    /\ rvOut.op = "Unwrap"
    /\ rvOut.failed
    /\ rvOut.asserted

\* C9: no ResultVal built by a public constructor is in the failure state
\* with Code() equal to ResultSuccess: Succeeded() holds if and only if
\* Code().IsSuccess() holds.
C9_FailureNeverSuccessCode ==
    rvOut.op = "query"
        => /\ rvOut.failed => ~ResultEquals(rvOut.code, ResultSuccess)
           /\ rvOut.succeeded <=> IsSuccess(rvOut.code)

\* C21: the value-access operators of ResultVal, operator* and operator->,
\* behave like Unwrap(): on a ResultVal in the success state they return the
\* held value, and on one in the failure state they stop in the fatal
\* assertion failure instead of returning.
C21_AccessLikeUnwrap ==
    rvOut.op \in {"operator*", "operator->"}
        => IF Succeeded(rv)
           THEN /\ rvOut.returned
                /\ ~rvOut.asserted
                /\ rvOut.value = rv.value
           ELSE /\ rvOut.asserted
                /\ ~rvOut.returned

\* C23: a ResultVal constructed from ResultRange(M, lo, hi) is in the failure
\* state, Failed() true and Succeeded() false, and its Code() equals
\* Result(M, lo).
C23_RangeFailureState ==
    (rvArgs.from = "range" /\ rvOut.succeeded # rvOut.failed)
        => /\ rvOut.failed
           /\ ~rvOut.succeeded
           /\ ~rvOut.bool
           /\ ResultEquals(rvOut.code, ResultMD(rvArgs.module, rvArgs.start))

C23_Witness ==
    /\ rvArgs.from = "range"
    /\ rvArgs.module = FS
    /\ rvArgs.start = 42
    /\ rvArgs.end = ToWord(9999)
    /\ rvOut.op = "query"
    /\ rvOut.failed
    /\ ToNat(rvOut.code) = 42 * 2^DescriptionPos + FS

\* C24: ValueOr(fallback) on a ResultVal in the success state returns the
\* held value, on one in the failure state returns the fallback, and in
\* neither state reaches the assertion failure.
C24_ValueOrNeverFails ==
    rvOut.op = "ValueOr"
        => /\ rvOut.returned
           /\ ~rvOut.asserted
           /\ rvArgs.from = "value" => rvOut.value = rvArgs.value
           /\ rvArgs.from = "default" => rvOut.value = TDefault
           /\ rvArgs.from \in {"result", "range"}
                => rvOut.value = rvOut.fallback

C24_Witness ==
    /\ rvOut.op = "ValueOr"
    /\ rvArgs.from = "result"
    /\ rvArgs.code = ResultMD(FS, 42)
    /\ rvOut.fallback = MaxValue
    /\ rvOut.value = MaxValue
    /\ rvOut.returned

----------------------------------------------------------------------------
(* The propagation macros.  A frame is the activation of a function that   *)
(* returns Result; g is the outcome guard its text registers.              *)

\* ResultImpl::EvaluateResultSuccess / EvaluateResultFailure
EvaluateResultSuccess(r) == IsSuccess(r)
EvaluateResultFailure(r) == IsFailure(r)

\* ~ScopedResultGuard(): the predicate is applied to the referenced slot and
\* the action runs when it holds
GuardDestructor(f, g) ==
    IF g = "none" THEN f
    ELSE LET hit == IF g = "failure" THEN EvaluateResultFailure(f.slot)
                    ELSE EvaluateResultSuccess(f.slot)
         IN [f EXCEPT !.evaluated = @ + 1,
                      !.fired = IF hit THEN @ + 1 ELSE @]

\* DECLARE_CURRENT_RESULT_REFERENCE_AND_STORAGE followed by
\* ON_RESULT_RETURN_IMPL: no reference is in scope yet, so the reference is
\* bound to fresh storage holding ResultSuccess
OnResultGuard(f, g) ==
    IF g = "none" THEN f
    ELSE [f EXCEPT !.declared = TRUE, !.slot = ResultSuccess]

\* a faulty update that never stores
UpdateNothing(f, res) == f

\* ResultImpl::UpdateCurrentResultReference: the Result& specialisation
\* stores, the const Result one (the namespace-scope constant) does nothing
UpdateCurrentResultReference(f, res) ==
    IF f.declared THEN [f EXCEPT !.slot = res] ELSE f

\* `return res;` leaving the function: the guard in scope is destroyed
ReturnStatement(f, g, res) ==
    [GuardDestructor(f, g) EXCEPT !.pc = "done", !.ret = res]

\* R_RETURN(res_expr) and R_THROW(res_expr)
R_RETURN(f, g, res) ==
    ReturnStatement(UpdateCurrentResultReference(f, res), g, res)

\* a faulty R_TRY that notes the failure and carries on
R_TRY_FallsThrough(f, g, res) ==
    [UpdateCurrentResultReference(f, res) EXCEPT !.pc = "after"]

\* R_TRY(res_expr)
R_TRY(f, g, res) ==
    IF IsFailure(res) THEN R_RETURN(f, g, res)
    ELSE [f EXCEPT !.pc = "after"]

\* CASCADE_CODE(source)
CASCADE_CODE(f, g, res) ==
    IF IsError(res) THEN ReturnStatement(f, g, res)
    ELSE [f EXCEPT !.pc = "after"]

\* CASCADE_RESULT(target, source): source is a ResultVal; a success is read
\* through operator*
CASCADE_RESULT(f, g, val) ==
    IF Failed(val) THEN ReturnStatement(f, g, Code(val))
    ELSE [f EXCEPT !.pc = "after", !.target = val.value]

\* a faulty R_UNLESS that returns when the condition holds
R_UNLESS_Inverted(f, g, expr, res) ==
    IF expr THEN R_RETURN(f, g, res) ELSE [f EXCEPT !.pc = "after"]

\* R_UNLESS(expr, res)
R_UNLESS(f, g, expr, res) ==
    IF ~expr THEN R_RETURN(f, g, res) ELSE [f EXCEPT !.pc = "after"]

\* a faulty R_SUCCEED_IF that forgets the negation
R_SUCCEED_IF_NotNegated(f, g, expr) == R_UNLESS(f, g, expr, ResultSuccess)

\* a faulty R_SUCCEED_IF that returns a failure
R_SUCCEED_IF_Failure(f, g, expr) == R_UNLESS(f, g, ~expr, ResultUnknown)

\* R_SUCCEED_IF(expr)
R_SUCCEED_IF(f, g, expr) == R_UNLESS(f, g, ~expr, ResultSuccess)

----------------------------------------------------------------------------
(* The propagation specification: an enclosing function                    *)
(*     Result F() {                                                        *)
(*         [ON_RESULT_FAILURE {..}; | ON_RESULT_SUCCESS {..};]             *)
(*         R_TRY(Sub()); | CASCADE_CODE(Sub()); | CASCADE_RESULT(t, Sub());*)
(*           | R_UNLESS(cond, res); | R_SUCCEED_IF(cond);                  *)
(*         after();                                                        *)
(*         R_RETURN(last);                                                 *)
(*     }                                                                   *)

Guards == {"none", "failure", "success"}
Macros == {"R_TRY", "CASCADE_CODE", "CASCADE_RESULT", "R_UNLESS", "R_SUCCEED_IF"}

\* the ResultRanges given to R_UNLESS
UnlessRanges ==
    [module : {FS}, start : {1, 42}, end : {ToWord(9999)}]

\* the Results a sub-call returns and the last statement names
SubResults ==
    {ResultSuccess, ResultUnknown}
        \cup {ResultMD(m, d) : m \in {Kernel, FS, GeneralWebApplet},
                               d \in (1..SmallMax) \cup {42}}

\* the ResultVals a sub-call returns
SubVals ==
    {ResultValFromValue(val) : val \in TValues}
        \cup {ResultValFromResult(code) : code \in SubResults}

InitProp ==
    /\ DeviceIdle
    /\ ResultIdle
    /\ RangeIdle
    /\ ValIdle
    /\ CmpIdle /\ ScopeIdle /\ ChainIdle /\ ThreadIdle
    /\ prog \in [guard : Guards, macro : Macros, last : SubResults]
    /\ sub = NoSub
    /\ frame = [NoFrame EXCEPT !.pc = "entry"]

\* the guard declaration at the top of the body
Enter ==
    /\ frame.pc = "entry"
    /\ frame' = [OnResultGuard(frame, prog.guard) EXCEPT !.pc = "call"]
    /\ UNCHANGED <<prog, sub, resultVars, rangeVars, valVars, cmpVars, scopeVars,
                   chainVars, threadVars,
                   deviceVars>>

\* Sub() returns a Result
SubReturnsResult ==
    \E code \in SubResults :
        /\ frame.pc = "call"
        /\ prog.macro \in {"R_TRY", "CASCADE_CODE"}
        /\ sub' = [NoSub EXCEPT !.kind = "Result", !.code = code]
        /\ frame' = [frame EXCEPT !.pc = "propagate"]
        /\ UNCHANGED <<prog, resultVars, rangeVars, valVars, cmpVars, scopeVars,
                   chainVars, threadVars,
                   deviceVars>>

\* Sub() returns a ResultVal; sub.code is the code it was built from
SubReturnsVal ==
    \E val \in SubVals :
        /\ frame.pc = "call"
        /\ prog.macro = "CASCADE_RESULT"
        /\ sub' = [NoSub EXCEPT !.kind = "ResultVal", !.code = val.error,
                                !.val = val]
        /\ frame' = [frame EXCEPT !.pc = "propagate"]
        /\ UNCHANGED <<prog, resultVars, rangeVars, valVars, cmpVars, scopeVars,
                   chainVars, threadVars,
                   deviceVars>>

\* the operands of R_UNLESS are evaluated: a condition and a Result
UnlessOperands ==
    \E c \in BOOLEAN, code \in SubResults :
        /\ frame.pc = "call"
        /\ prog.macro = "R_UNLESS"
        /\ sub' = [NoSub EXCEPT !.kind = "operands", !.cond = c,
                                !.code = code]
        /\ frame' = [frame EXCEPT !.pc = "propagate"]
        /\ UNCHANGED <<prog, resultVars, rangeVars, valVars, cmpVars, scopeVars,
                   chainVars, threadVars,
                   deviceVars>>

\* the operands of R_UNLESS are evaluated: a condition and a ResultRange,
\* which initialises the Result through operator Result
UnlessRangeOperands ==
    \E c \in BOOLEAN, args \in UnlessRanges :
        /\ frame.pc = "call"
        /\ prog.macro = "R_UNLESS"
        /\ sub' = [NoSub EXCEPT
                    !.kind = "operands", !.cond = c, !.fromRange = TRUE,
                    !.rangeArgs = args,
                    !.code = RangeToResult(ResultRange(args.module, args.start,
                                                       args.end))]
        /\ frame' = [frame EXCEPT !.pc = "propagate"]
        /\ UNCHANGED <<prog, resultVars, rangeVars, valVars, cmpVars, scopeVars,
                   chainVars, threadVars,
                   deviceVars>>

\* the operand of R_SUCCEED_IF is evaluated
SucceedIfOperand ==
    \E c \in BOOLEAN :
        /\ frame.pc = "call"
        /\ prog.macro = "R_SUCCEED_IF"
        /\ sub' = [NoSub EXCEPT !.kind = "operands", !.cond = c]
        /\ frame' = [frame EXCEPT !.pc = "propagate"]
        /\ UNCHANGED <<prog, resultVars, rangeVars, valVars, cmpVars, scopeVars,
                   chainVars, threadVars,
                   deviceVars>>

DoUnless ==
    /\ frame.pc = "propagate"
    /\ prog.macro = "R_UNLESS"
    /\ frame' = R_UNLESS(frame, prog.guard, sub.cond, sub.code)
    /\ UNCHANGED <<prog, sub, resultVars, rangeVars, valVars, cmpVars, scopeVars,
                   chainVars, threadVars,
                   deviceVars>>

DoSucceedIf ==
    /\ frame.pc = "propagate"
    /\ prog.macro = "R_SUCCEED_IF"
    /\ frame' = R_SUCCEED_IF(frame, prog.guard, sub.cond)
    /\ UNCHANGED <<prog, sub, resultVars, rangeVars, valVars, cmpVars, scopeVars,
                   chainVars, threadVars,
                   deviceVars>>

DoRTry ==
    /\ frame.pc = "propagate"
    /\ prog.macro = "R_TRY"
    /\ frame' = R_TRY(frame, prog.guard, sub.code)
    /\ UNCHANGED <<prog, sub, resultVars, rangeVars, valVars, cmpVars, scopeVars,
                   chainVars, threadVars,
                   deviceVars>>

DoCascadeCode ==
    /\ frame.pc = "propagate"
    /\ prog.macro = "CASCADE_CODE"
    /\ frame' = CASCADE_CODE(frame, prog.guard, sub.code)
    /\ UNCHANGED <<prog, sub, resultVars, rangeVars, valVars, cmpVars, scopeVars,
                   chainVars, threadVars,
                   deviceVars>>

DoCascadeResult ==
    /\ frame.pc = "propagate"
    /\ prog.macro = "CASCADE_RESULT"
    /\ frame' = CASCADE_RESULT(frame, prog.guard, sub.val)
    /\ UNCHANGED <<prog, sub, resultVars, rangeVars, valVars, cmpVars, scopeVars,
                   chainVars, threadVars,
                   deviceVars>>

\* the statements after the try-propagate
After ==
    /\ frame.pc = "after"
    /\ frame' = [frame EXCEPT !.pc = "last", !.afterRan = TRUE]
    /\ UNCHANGED <<prog, sub, resultVars, rangeVars, valVars, cmpVars, scopeVars,
                   chainVars, threadVars,
                   deviceVars>>

\* the last return statement
LastReturn ==
    /\ frame.pc = "last"
    /\ frame' = R_RETURN(frame, prog.guard, prog.last)
    /\ UNCHANGED <<prog, sub, resultVars, rangeVars, valVars, cmpVars, scopeVars,
                   chainVars, threadVars,
                   deviceVars>>

NextProp ==
    \/ Enter
    \/ SubReturnsResult
    \/ SubReturnsVal
    \/ DoRTry
    \/ DoCascadeCode
    \/ DoCascadeResult
    \/ UnlessOperands
    \/ UnlessRangeOperands
    \/ SucceedIfOperand
    \/ DoUnless
    \/ DoSucceedIf
    \/ After
    \/ LastReturn

SpecProp == InitProp /\ [][NextProp]_vars

----------------------------------------------------------------------------
(* Properties of the propagation macros *)

\* the sub-call returned a failure: a failure Result, or a failed ResultVal
SubFailed ==
    \/ sub.kind = "Result" /\ IsFailure(sub.code)
    \/ sub.kind = "ResultVal" /\ Failed(sub.val)

\* C10: when the sub-call returns a failure E and the enclosing function
\* applies R_TRY, CASCADE_CODE or CASCADE_RESULT to it, the function returns
\* at once with a Result whose raw value is E's, and no statement after the
\* macro is executed.
C10_FailurePropagates ==
    (SubFailed /\ frame.pc # "propagate")
        => /\ frame.pc = "done"
           /\ frame.ret = sub.code
           /\ ~frame.afterRan

C10_Witness ==
    /\ prog.macro = "R_TRY"
    /\ sub.kind = "Result"
    /\ sub.code = ResultMD(FS, 42)
    /\ frame.pc = "done"
    /\ frame.ret = ResultMD(FS, 42)
    /\ ~frame.afterRan

\* the macro m has been applied to its evaluated operands
Applied(m) ==
    /\ prog.macro = m
    /\ sub.kind = "operands"
    /\ frame.pc # "propagate"

\* the function did not return at the macro: it is at or past the next
\* statement, and if it has returned, the next statement ran first
Continued ==
    /\ frame.pc \in {"after", "last", "done"}
    /\ frame.pc = "after" => (frame.ret = {} /\ frame.evaluated = 0)
    /\ frame.pc = "done" => (frame.afterRan /\ frame.ret = prog.last)

\* C13: R_UNLESS(cond, res): when cond is false the enclosing function
\* returns res at once (a ResultRange given as res is returned as its
\* range-start Result) and the current-result slot is set to res; when cond
\* is true nothing is returned, execution continues with the next statement
\* and the slot is unchanged.
C13_Unless ==
    Applied("R_UNLESS")
        => IF ~sub.cond
           THEN /\ frame.pc = "done"
                /\ frame.ret = sub.code
                /\ ~frame.afterRan
                /\ frame.declared => frame.slot = sub.code
                /\ sub.fromRange
                     => frame.ret = ResultMD(sub.rangeArgs.module,
                                             sub.rangeArgs.start)
           ELSE /\ Continued
                /\ (frame.pc = "after" /\ frame.declared)
                     => frame.slot = ResultSuccess

C13_Witness ==
    /\ Applied("R_UNLESS")
    /\ ~sub.cond
    /\ sub.fromRange
    /\ prog.guard = "failure"
    /\ frame.pc = "done"
    /\ frame.ret = ResultMD(FS, 42)
    /\ frame.slot = ResultMD(FS, 42)

\* C14: R_SUCCEED_IF(expr) makes the enclosing function return ResultSuccess
\* exactly when expr is true; when expr is false it returns nothing and
\* execution continues with the statement after it. It is R_UNLESS with the
\* condition negated and ResultSuccess as the returned code.
C14_SucceedIf ==
    /\ Applied("R_SUCCEED_IF")
        => IF sub.cond
           THEN /\ frame.pc = "done"
                /\ frame.ret = ResultSuccess
                /\ ~frame.afterRan
           ELSE Continued
    /\ (prog.macro = "R_SUCCEED_IF" /\ frame.pc = "propagate")
        => R_SUCCEED_IF(frame, prog.guard, sub.cond)
              = R_UNLESS(frame, prog.guard, ~sub.cond, ResultSuccess)

C14_Witness ==
    /\ Applied("R_SUCCEED_IF")
    /\ sub.cond
    /\ frame.pc = "done"
    /\ frame.ret = ResultSuccess
    /\ ~frame.afterRan

\* C15 as stated: succeed-if always returns from the enclosing function,
\* success when its condition does not hold and a failure Result when it
\* holds.
C15_AlwaysReturns ==
    Applied("R_SUCCEED_IF")
        => /\ frame.pc = "done"
           /\ ~frame.afterRan
           /\ IF sub.cond THEN IsFailure(frame.ret)
              ELSE frame.ret = ResultSuccess

\* C15: succeed-if returns from the enclosing function only when its
\* condition holds, and then it returns ResultSuccess; when the condition
\* does not hold it does not return and execution continues with the next
\* statement. It never returns a failure.
C15_ReturnsOnlyWhenHolds ==
    Applied("R_SUCCEED_IF")
        => /\ (frame.pc = "done" /\ ~frame.afterRan)
                <=> sub.cond
           /\ sub.cond => (IsSuccess(frame.ret) /\ ~IsFailure(frame.ret))
           /\ ~sub.cond => (frame.pc # "done" \/ frame.afterRan)

C15_Witness ==
    /\ Applied("R_SUCCEED_IF")
    /\ ~sub.cond
    /\ frame.pc = "after"
    /\ ~frame.afterRan
    /\ frame.ret = {}

----------------------------------------------------------------------------
(* Guards in nested blocks.                                                *)
(*     Result G() {                                                        *)
(*         ON_RESULT_FAILURE {..}; | ON_RESULT_SUCCESS {..};               *)
(*         {                                                               *)
(*             [ON_RESULT_FAILURE {..}; | ON_RESULT_SUCCESS {..};]         *)
(*             R_UNLESS(cond, first);                                      *)
(*         }                                                               *)
(*         statement;                                                      *)
(*         R_RETURN(last);                                                 *)
(*     }                                                                   *)

\* DECLARE_CURRENT_RESULT_REFERENCE_AND_STORAGE: the new reference is bound
\* to fresh storage, PrevRef_N (a copy of what the enclosing reference
\* denotes) when a Result& is already in scope, __tmp_result_N (ResultSuccess)
\* when only the namespace-scope constant is
DeclareStorage(hasPrevRef, prev) ==
    [NoGuard EXCEPT !.declared = TRUE,
                    !.slot = IF hasPrevRef THEN prev ELSE ResultSuccess]

\* what __TmpCurrentResultReference denotes inside the activation sc
CurrentReference(sc) ==
    IF sc.ref = "inner" THEN sc.inner
    ELSE IF sc.ref = "outer" THEN sc.outer
    ELSE [NoGuard EXCEPT !.slot = ResultSuccess]

\* R_RETURN(res) at a point of sc: the storage the reference in scope is
\* bound to is updated, then the guards are destroyed innermost first
ScopeReturn(sc, res) ==
    LET upd == UpdateCurrentResultReference(CurrentReference(sc), res)
        a == IF sc.ref = "inner" THEN [sc EXCEPT !.inner = upd]
             ELSE IF sc.ref = "outer" THEN [sc EXCEPT !.outer = upd]
             ELSE sc
        b == IF a.inner.declared /\ a.inner.evaluated = 0
             THEN [a EXCEPT !.inner = GuardDestructor(a.inner, a.innerKind)]
             ELSE a
    IN [b EXCEPT !.outer = GuardDestructor(b.outer, b.outerKind),
                 !.pc = "done", !.ret = res]

ScopeResults == {ResultSuccess, ResultUnknown, ResultMD(FS, 42)}
    \cup {ResultMD(Kernel, d) : d \in 1..SmallMax}

InitScope ==
    /\ DeviceIdle
    /\ ResultIdle /\ RangeIdle /\ ValIdle /\ PropIdle
    /\ CmpIdle /\ ChainIdle /\ ThreadIdle
    /\ \E o \in {"failure", "success"}, i \in Guards,
          r1 \in ScopeResults, r2 \in ScopeResults :
        scope = [NoScope EXCEPT !.pc = "entry", !.outerKind = o,
                                !.innerKind = i, !.first = r1, !.last = r2]

\* the guard at the top of the function body
ScopeEnterOuter ==
    /\ scope.pc = "entry"
    /\ scope' = [scope EXCEPT !.pc = "block", !.ref = "outer",
                              !.outer = DeclareStorage(FALSE, ambient)]
    /\ UNCHANGED <<resultVars, rangeVars, valVars, propVars, cmpVars,
                   chainVars, threadVars,
                   deviceVars>>

\* the nested block opens; it may register a guard of its own
ScopeEnterBlock ==
    /\ scope.pc = "block"
    /\ scope' = IF scope.innerKind = "none"
                THEN [scope EXCEPT !.pc = "unless"]
                ELSE [scope EXCEPT !.pc = "unless", !.ref = "inner",
                        !.inner = DeclareStorage(TRUE,
                                                 CurrentReference(scope).slot)]
    /\ UNCHANGED <<resultVars, rangeVars, valVars, propVars, cmpVars,
                   chainVars, threadVars,
                   deviceVars>>

\* R_UNLESS(cond, first) inside the block
ScopeUnless ==
    \E c \in BOOLEAN :
        /\ scope.pc = "unless"
        /\ scope' = IF ~c THEN ScopeReturn([scope EXCEPT !.cond = c],
                                           scope.first)
                    ELSE [scope EXCEPT !.cond = c, !.pc = "blockEnd"]
        /\ UNCHANGED <<resultVars, rangeVars, valVars, propVars, cmpVars,
                       chainVars, threadVars,
                   deviceVars>>

\* the block closes: a guard registered in it is destroyed here
ScopeLeaveBlock ==
    /\ scope.pc = "blockEnd"
    /\ scope' = [scope EXCEPT
                    !.pc = "statement", !.ref = "outer",
                    !.inner = IF scope.inner.declared
                              THEN GuardDestructor(@, scope.innerKind)
                              ELSE @]
    /\ UNCHANGED <<resultVars, rangeVars, valVars, propVars, cmpVars,
                   chainVars, threadVars,
                   deviceVars>>

\* the statement after the block
ScopeStatement ==
    /\ scope.pc = "statement"
    /\ scope' = [scope EXCEPT !.pc = "last",
                              !.lateStmt = scope.inner.fired > 0]
    /\ UNCHANGED <<resultVars, rangeVars, valVars, propVars, cmpVars,
                   chainVars, threadVars,
                   deviceVars>>

\* R_RETURN(last)
ScopeLastReturn ==
    /\ scope.pc = "last"
    /\ scope' = ScopeReturn(scope, scope.last)
    /\ UNCHANGED <<resultVars, rangeVars, valVars, propVars, cmpVars,
                   chainVars, threadVars,
                   deviceVars>>

NextScope ==
    \/ ScopeEnterOuter
    \/ ScopeEnterBlock
    \/ ScopeUnless
    \/ ScopeLeaveBlock
    \/ ScopeStatement
    \/ ScopeLastReturn

SpecScope == InitScope /\ [][NextScope]_vars

----------------------------------------------------------------------------
(* Properties of the outcome guards *)

\* what C11 says of one guard g of kind k in an activation that returned ret
GuardSawFinalResult(g, k, ret) ==
    /\ g.evaluated = 1
    /\ g.slot = ret
    /\ g.fired <= 1
    /\ (k = "failure" /\ IsSuccess(ret)) => g.fired = 0
    /\ (k = "success" /\ IsFailure(ret)) => g.fired = 0

\* C11: in every activation that registers an outcome guard and has several
\* return points, the guard is evaluated exactly once, against the Result the
\* function finally returns; its action runs at most once, never for an
\* on-failure guard when the function returns success, and never for an
\* on-success guard when it returns a failure.
C11_GuardSeesFinalResult ==
    scope.pc = "done"
        => /\ GuardSawFinalResult(scope.outer, scope.outerKind, scope.ret)
           /\ scope.inner.declared
                => GuardSawFinalResult(scope.inner, scope.innerKind, scope.ret)

----------------------------------------------------------------------------
(* Calls between guarded functions on one thread. Every function is        *)
(*     Result F() {                                                        *)
(*         [ON_RESULT_FAILURE {..}; | ON_RESULT_SUCCESS {..};]             *)
(*         [R_TRY(G());]                                                   *)
(*         R_RETURN(res);                                                  *)
(*     }                                                                   *)
(* where G is any such function, F itself included.                        *)

\* deepest nesting of calls explored
MaxDepth == 3

ChainResults == {ResultSuccess, ResultMD(FS, 42), ResultMD(Kernel, SmallMax)}

\* the activation record of a call at depth d of a function with guard g
ChainFrame(d, g) ==
    [pc |-> "entry", depth |-> d, guard |-> g, declared |-> FALSE,
     slot |-> {}, ret |-> {}, evaluated |-> 0, fired |-> 0,
     sub |-> {}, via |-> "none"]

Top(stk) == stk[Len(stk)]

\* a faulty store that keeps one slot for the whole thread
StoreInSharedSlot(stk, f) ==
    [i \in 1..Len(stk) |->
        IF i = Len(stk) THEN f ELSE [stk[i] EXCEPT !.slot = f.slot]]

\* __tmp_result_N and the guard are locals of the running activation: what
\* the running activation writes lands in its own record
StoreInActivation(stk, f) == [stk EXCEPT ![Len(stk)] = f]

InitChain ==
    /\ DeviceIdle
    /\ ResultIdle /\ RangeIdle /\ ValIdle /\ PropIdle
    /\ CmpIdle /\ ScopeIdle /\ ThreadIdle
    /\ finished = <<>>
    /\ \E g \in Guards : stack = <<ChainFrame(1, g)>>

\* the guard declaration at the top of the running function
ChainEnter ==
    /\ stack # <<>>
    /\ Top(stack).pc = "entry"
    /\ stack' = StoreInActivation(stack,
                    [OnResultGuard(Top(stack), Top(stack).guard)
                        EXCEPT !.pc = "body"])
    /\ UNCHANGED <<finished, resultVars, rangeVars, valVars, propVars,
                   cmpVars, scopeVars, threadVars,
                   deviceVars>>

\* the operand of R_TRY is a call: a new activation starts
ChainCall ==
    /\ stack # <<>>
    /\ Top(stack).pc = "body"
    /\ Len(stack) < MaxDepth
    /\ \E g \in Guards :
        stack' = Append([stack EXCEPT ![Len(stack)].pc = "waiting"],
                        ChainFrame(Len(stack) + 1, g))
    /\ UNCHANGED <<finished, resultVars, rangeVars, valVars, propVars,
                   cmpVars, scopeVars, threadVars,
                   deviceVars>>

\* R_RETURN(res) / R_THROW(res) in the running activation
ChainReturn ==
    /\ stack # <<>>
    /\ Top(stack).pc \in {"body", "after"}
    /\ \E res \in ChainResults :
        stack' = StoreInActivation(stack,
                    [R_RETURN(Top(stack), Top(stack).guard, res)
                        EXCEPT !.via = "return"])
    /\ UNCHANGED <<finished, resultVars, rangeVars, valVars, propVars,
                   cmpVars, scopeVars, threadVars,
                   deviceVars>>

\* the returned activation is popped; its Result is the value of the call
\* expression in the caller
ChainResume ==
    /\ stack # <<>>
    /\ Top(stack).pc = "done"
    /\ finished' = Append(finished, Top(stack))
    /\ stack' = IF Len(stack) = 1 THEN <<>>
                ELSE [SubSeq(stack, 1, Len(stack) - 1) EXCEPT
                        ![Len(stack) - 1].pc = "try",
                        ![Len(stack) - 1].sub = Top(stack).ret]
    /\ UNCHANGED <<resultVars, rangeVars, valVars, propVars,
                   cmpVars, scopeVars, threadVars,
                   deviceVars>>

\* R_TRY on the value the callee returned
ChainTry ==
    /\ stack # <<>>
    /\ Top(stack).pc = "try"
    /\ stack' = StoreInActivation(stack,
                    [R_TRY(Top(stack), Top(stack).guard, Top(stack).sub)
                        EXCEPT !.via = IF IsFailure(Top(stack).sub)
                                       THEN "try" ELSE @])
    /\ UNCHANGED <<finished, resultVars, rangeVars, valVars, propVars,
                   cmpVars, scopeVars, threadVars,
                   deviceVars>>

NextChain ==
    \/ ChainEnter
    \/ ChainCall
    \/ ChainReturn
    \/ ChainResume
    \/ ChainTry

SpecChain == InitChain /\ [][NextChain]_vars

\* the chain A -> B -> C has completed: C returned Result(FS, 42), B and A
\* left through R_TRY, and A had registered an on-failure guard
ChainABC ==
    /\ Len(finished) = 3
    /\ finished[1].depth = 3
    /\ finished[1].ret = ResultMD(FS, 42)
    /\ finished[2].via = "try"
    /\ finished[3].via = "try"
    /\ finished[3].guard = "failure"

\* C12: in the chain A calls B calls C, when C returns Result(FS, 42), B
\* forwards it with R_TRY and A, which registered an on-failure guard,
\* forwards it with R_TRY, A's on-failure action runs exactly once with A's
\* slot equal to Result(FS, 42), and A returns the raw word 42 * 2^9 + 2 =
\* 21506.
C12_ChainForwards ==
    ChainABC => /\ finished[3].fired = 1
                /\ finished[3].evaluated = 1
                /\ finished[3].slot = ResultMD(FS, 42)
                /\ finished[3].ret = ToWord(42 * 2^9 + 2)
                /\ ToNat(finished[3].ret) = 21506
                /\ finished[2].ret = ResultMD(FS, 42)

C12_Witness ==
    /\ ChainABC
    /\ finished[3].fired = 1
    /\ ToNat(finished[3].ret) = 21506

\* every completed activation's guard decided on that activation's Result
OwnDecision(f) ==
    f.guard # "none"
        => /\ f.evaluated = 1
           /\ f.slot = f.ret
           /\ f.fired = IF (f.guard = "failure") = IsFailure(f.ret)
                        THEN 1 ELSE 0

\* a step leaves the slot and the guard of every caller below the running
\* activation as they were
CallersUntouched ==
    \A i \in 1..(Len(stack) - 1) :
        /\ i <= Len(stack')
        /\ stack'[i].slot = stack[i].slot
        /\ stack'[i].declared = stack[i].declared
        /\ stack'[i].fired = stack[i].fired
        /\ stack'[i].evaluated = stack[i].evaluated

\* C16: every activation that registers a guard has its own current-result
\* slot: an R_RETURN/R_THROW executed in a callee (a recursive call of the
\* same function included) never changes the slot of a caller, so every
\* guard decides on the Result of its own activation only.
C16_OwnSlot ==
    /\ [][CallersUntouched]_vars
    /\ [](\A i \in 1..Len(finished) : OwnDecision(finished[i]))

\* a recursive call returned a failure through R_RETURN while the caller's
\* slot still holds ResultSuccess; the caller then returns success
C16_Witness ==
    /\ Len(stack) = 1
    /\ Len(finished) = 1
    /\ finished[1].guard = "failure"
    /\ finished[1].via = "return"
    /\ finished[1].fired = 1
    /\ Top(stack).guard = "failure"
    /\ Top(stack).pc = "try"
    /\ IsFailure(Top(stack).sub)
    /\ Top(stack).slot = ResultSuccess

----------------------------------------------------------------------------
(* Threads. Each thread runs its own activation of                         *)
(*     Result F() {                                                        *)
(*         [ON_RESULT_FAILURE {..}; | ON_RESULT_SUCCESS {..};]             *)
(*         R_TRY(Sub());                                                   *)
(*         R_RETURN(last);                                                 *)
(*     }                                                                   *)
(* and the steps of the macros interleave.                                 *)

\* number of threads explored
NumThreads == 2

ThreadIds == 1..NumThreads

ThreadResults == {ResultSuccess, ResultMD(FS, 42)}

\* the locals of one thread's activation of a function with guard g
ThreadFrame(g) ==
    [pc |-> "entry", guard |-> g, declared |-> FALSE, slot |-> {},
     rc |-> {}, ret |-> {}, evaluated |-> 0, fired |-> 0]

\* a faulty store that keeps the slot in storage shared by the threads
StoreInSharedStorage(ths, t, f) ==
    [u \in DOMAIN ths |->
        IF u = t THEN f ELSE [ths[u] EXCEPT !.slot = f.slot]]

\* the slot, the guard and the temporaries are locals of the activation,
\* which lives on the stack of the thread running it
StoreInThread(ths, t, f) == [ths EXCEPT ![t] = f]

\* the namespace-scope __TmpCurrentResultReference is a constexpr Result:
\* an update through it selects the const specialisation, which is empty
AmbientAfterUpdate(amb, f, res) == amb

InitThreads ==
    /\ DeviceIdle
    /\ ResultIdle /\ RangeIdle /\ ValIdle /\ PropIdle
    /\ CmpIdle /\ ScopeIdle /\ ChainIdle
    /\ ambient = ResultSuccess
    /\ threads \in [ThreadIds -> {ThreadFrame(g) : g \in Guards}]

\* ON_RESULT_FAILURE / ON_RESULT_SUCCESS at the top of the body
ThreadEnter(t) ==
    /\ threads[t].pc = "entry"
    /\ threads' = StoreInThread(threads, t,
                    [OnResultGuard(threads[t], threads[t].guard)
                        EXCEPT !.pc = "eval"])
    /\ UNCHANGED <<ambient, resultVars, rangeVars, valVars, propVars,
                   cmpVars, scopeVars, chainVars,
                   deviceVars>>

\* R_TRY: const auto _tmp_r_try_rc = (res_expr)
ThreadEval(t) ==
    \E res \in ThreadResults :
        /\ threads[t].pc = "eval"
        /\ threads' = StoreInThread(threads, t,
                        [threads[t] EXCEPT !.pc = "test", !.rc = res])
        /\ UNCHANGED <<ambient, resultVars, rangeVars, valVars, propVars,
                       cmpVars, scopeVars, chainVars,
                   deviceVars>>

\* R_TRY: if (R_FAILED(_tmp_r_try_rc)) R_THROW(_tmp_r_try_rc), else on to
\* the last statement, R_RETURN(last): const Result rc = (res_expr)
ThreadTest(t) ==
    \E res \in ThreadResults :
        /\ threads[t].pc = "test"
        /\ threads' = StoreInThread(threads, t,
                        IF IsFailure(threads[t].rc)
                        THEN [threads[t] EXCEPT !.pc = "update"]
                        ELSE [threads[t] EXCEPT !.pc = "update", !.rc = res])
        /\ UNCHANGED <<ambient, resultVars, rangeVars, valVars, propVars,
                       cmpVars, scopeVars, chainVars,
                   deviceVars>>

\* R_RETURN: UpdateCurrentResultReference(__TmpCurrentResultReference, rc)
ThreadUpdate(t) ==
    /\ threads[t].pc = "update"
    /\ threads' = StoreInThread(threads, t,
                    [UpdateCurrentResultReference(threads[t], threads[t].rc)
                        EXCEPT !.pc = "return"])
    /\ ambient' = AmbientAfterUpdate(ambient, threads[t], threads[t].rc)
    /\ UNCHANGED <<resultVars, rangeVars, valVars, propVars,
                   cmpVars, scopeVars, chainVars,
                   deviceVars>>

\* R_RETURN: return rc, destroying the guard
ThreadReturn(t) ==
    /\ threads[t].pc = "return"
    /\ threads' = StoreInThread(threads, t,
                    ReturnStatement(threads[t], threads[t].guard,
                                    threads[t].rc))
    /\ UNCHANGED <<ambient, resultVars, rangeVars, valVars, propVars,
                   cmpVars, scopeVars, chainVars,
                   deviceVars>>

NextThreads ==
    \E t \in ThreadIds :
        \/ ThreadEnter(t)
        \/ ThreadEval(t)
        \/ ThreadTest(t)
        \/ ThreadUpdate(t)
        \/ ThreadReturn(t)

SpecThreads == InitThreads /\ [][NextThreads]_vars

\* a step of thread t leaves the locals of every other thread as they were
OthersUntouched ==
    \A t \in DOMAIN threads, u \in DOMAIN threads :
        (t # u /\ threads'[t].pc # threads[t].pc)
            => threads'[u] = threads[u]

\* the guard of a thread that returned decided on that thread's Result
ObservedOwn(f) ==
    (f.pc = "done" /\ f.guard # "none")
        => /\ f.evaluated = 1
           /\ f.slot = f.ret
           /\ f.ret = f.rc
           /\ f.fired = IF (f.guard = "failure") = IsFailure(f.ret)
                        THEN 1 ELSE 0

\* C17: under every interleaving of two threads that each run a guarded
\* function, each thread's guard observes only the Result returned by its own
\* activation; no step of one thread changes the other's current-result slot
\* or any shared variable: the global __TmpCurrentResultReference stays
\* ResultSuccess.
C17_NoCrossTalk ==
    /\ [][OthersUntouched /\ ambient' = ambient]_vars
    /\ [](ambient = ResultSuccess)
    /\ [](\A t \in DOMAIN threads : ObservedOwn(threads[t]))

\* thread 1 has stored a failure in its slot and is about to return while
\* thread 2, which returned success, did not run its on-failure action
C17_Witness ==
    /\ threads # <<>>
    /\ threads[1].guard = "failure"
    /\ threads[1].pc = "return"
    /\ threads[1].slot = ResultMD(FS, 42)
    /\ threads[2].guard = "failure"
    /\ threads[2].pc = "done"
    /\ threads[2].ret = ResultSuccess
    /\ threads[2].fired = 0
    /\ ambient = ResultSuccess

----------------------------------------------------------------------------
(* Further properties of Result *)

\* C18: constructing a Result from a module value above 511 or a description
\* above 8191 fails loudly: it reaches an assertion or panic at the point of
\* construction rather than producing a Result value.
C18_OutOfRangeAsserts ==
    (origin.ctor = "md" /\ ~InFieldRange(origin)) => origin.asserted

\* bits 22..31 of the word, which neither field covers
ReservedBits == (ModuleBits + DescriptionBits)..(WordBits - 1)

----------------------------------------------------------------------------
(* Comparing two Results a and b: a.Includes(b) and a == b *)

\* how the compared Results are constructed
CompareArgs ==
    {[NoArgs EXCEPT !.ctor = "raw", !.raw = w] : w \in RawInputs}
        \cup {[NoArgs EXCEPT !.ctor = "md", !.module = m, !.description = d] :
                m \in {FS, ShopN}, d \in {42, 2^DescriptionBits + 1}}

\* the Result a constructor call with arguments args produces
Constructed(args) ==
    IF args.ctor = "raw" THEN ResultRaw(args.raw)
    ELSE ConstructResult(args.module, args.description).value

InitCompare ==
    /\ DeviceIdle
    /\ RangeIdle /\ ValIdle /\ PropIdle
    /\ ScopeIdle /\ ChainIdle /\ ThreadIdle
    /\ view = NoView
    /\ cmp = NoCmp
    /\ origin \in CompareArgs
    /\ result = Constructed(origin)

\* b is constructed
ConstructOther ==
    \E args \in CompareArgs :
        /\ otherArgs.ctor = "none"
        /\ otherArgs' = args
        /\ other' = Constructed(args)
        /\ UNCHANGED <<range, rangeArgs, rangeOut, resultVars, valVars,
                       propVars, cmpVars, scopeVars, chainVars, threadVars,
                   deviceVars>>

\* a.Includes(b)
CompareIncludes ==
    /\ otherArgs.ctor # "none"
    /\ ~cmp.calledIncludes
    /\ cmp' = [cmp EXCEPT !.calledIncludes = TRUE,
                          !.includes = ResultIncludes(result, other)]
    /\ UNCHANGED <<resultVars, rangeVars, valVars, propVars, scopeVars,
                   chainVars, threadVars,
                   deviceVars>>

\* a == b
CompareEquals ==
    /\ otherArgs.ctor # "none"
    /\ ~cmp.calledEquals
    /\ cmp' = [cmp EXCEPT !.calledEquals = TRUE,
                          !.equals = ResultEquals(result, other)]
    /\ UNCHANGED <<resultVars, rangeVars, valVars, propVars, scopeVars,
                   chainVars, threadVars,
                   deviceVars>>

NextCompare == ConstructOther \/ CompareIncludes \/ CompareEquals

SpecCompare == InitCompare /\ [][NextCompare]_vars

\* C19 as stated: for all Results a and b, ones built from arbitrary raw
\* 32-bit words included, a.Includes(b) holds exactly when a.raw == b.raw,
\* so Includes agrees with operator==.
C19_IncludesIsRawEquality ==
    /\ cmp.calledIncludes => (cmp.includes <=> result = other)
    /\ (cmp.calledIncludes /\ cmp.calledEquals)
        => (cmp.includes <=> cmp.equals)

\* C19: a.Includes(b) holds exactly when a and b have the same module and
\* description fields, that is when their raw words agree on bits 0..21;
\* bits 22..31 are ignored. It agrees with a.raw == b.raw (operator==)
\* whenever a and b also agree on bits 22..31, as all Results built by the
\* (module, description) constructor do.
C19_IncludesComparesFields ==
    /\ cmp.calledIncludes
        => /\ cmp.includes <=> /\ Module(result) = Module(other)
                               /\ Description(result) = Description(other)
           /\ cmp.includes <=> (result \ ReservedBits = other \ ReservedBits)
           /\ (result \cap ReservedBits = other \cap ReservedBits)
                => (cmp.includes <=> result = other)
           /\ (origin.ctor = "md" /\ otherArgs.ctor = "md")
                => (cmp.includes <=> result = other)
    /\ cmp.calledEquals => (cmp.equals <=> result = other)

\* ResultUnknown.Includes(Result(0x3FFFFF)) holds although the words differ
C19_Witness ==
    /\ result = ResultUnknown
    /\ other = ToWord(2^(ModuleBits + DescriptionBits) - 1)
    /\ cmp.calledIncludes
    /\ cmp.includes
    /\ cmp.calledEquals
    /\ ~cmp.equals

----------------------------------------------------------------------------
(* Further properties of the outcome guards *)

\* C22: the action of an outcome guard runs when the enclosing function
\* returns and not earlier: no statement of the function body executes after
\* the guard's action has run, whether the guard was registered at the top
\* level of the body or in a nested block.
C22_ActionOnlyAtReturn ==
    /\ ~scope.lateStmt
    /\ (scope.outer.fired > 0 \/ scope.inner.fired > 0) => scope.pc = "done"

\* C26: when guards are registered in two nested scopes of one activation and
\* the function returns through R_RETURN/R_THROW/R_TRY executed inside the
\* inner scope, the outer guard and the inner guard both evaluate their
\* predicates against the same value, the Result actually returned.
C26_NestedGuardsAgree ==
    (scope.pc = "done" /\ scope.inner.declared /\ scope.ref = "inner")
        => /\ scope.outer.evaluated = 1
           /\ scope.inner.evaluated = 1
           /\ scope.inner.slot = scope.ret
           /\ scope.outer.slot = scope.ret

\* C27: whenever an activation that registered an ON_RESULT_FAILURE guard
\* returns a failure Result, the guard's action runs, whichever return
\* statement was taken: R_RETURN/R_THROW/R_TRY/R_UNLESS, the early return
\* of CASCADE_CODE or CASCADE_RESULT, or a plain return; and an
\* ON_RESULT_SUCCESS action does not run when the function returns a failure
\* by any of these paths.
C27_FailureGuardOnEveryPath ==
    (frame.pc = "done" /\ IsFailure(frame.ret))
        => /\ prog.guard = "failure" => frame.fired = 1
           /\ prog.guard = "success" => frame.fired = 0

----------------------------------------------------------------------------
(* Properties of the ErrorModule enumerators *)

\* enumerators of ErrorModule used as constructor arguments
ErrorModuleSample == {Common, Kernel, FS, GeneralWebApplet, ShopN}

\* C28: for every enumerator m of ErrorModule, GeneralWebApplet = 800,
\* WifiWebAuthApplet = 809, WhitelistedApplet = 810 and ShopN = 811 included,
\* and every description d in 0..8191, Result(m, d).module reads back as m,
\* and Results built from distinct enumerators with the same description
\* have distinct raw values.
C28_EnumeratorsReadBack ==
    (/\ view.read
     /\ origin.ctor = "md"
     /\ origin.module \in ErrorModuleSample
     /\ origin.description <= 2^DescriptionBits - 1)
        => /\ view.module = origin.module
           /\ \A m \in ErrorModuleSample \ {origin.module} :
                ResultMD(m, origin.description) # result

----------------------------------------------------------------------------
(* Device::CheckSuitability *)

\* VK_MAKE_API_VERSION(0, major, minor, 0)
ApiVersion(major, minor) == major * 2^22 + minor * 2^12

VK_API_VERSION_1_1 == ApiVersion(1, 1)
VK_API_VERSION_1_2 == ApiVersion(1, 2)
VK_API_VERSION_1_3 == ApiVersion(1, 3)

\* the build: _WIN32 defined, __unix__ defined, or neither
Platforms == {"win32", "unix", "other"}

REQUIRED_EXTENSIONS(platform) ==
    <<"VK_EXT_vertex_attribute_divisor", "VK_EXT_robustness2">>
        \o (IF platform = "win32" THEN <<"VK_KHR_external_memory_win32">>
            ELSE <<>>)
        \o (IF platform = "unix" THEN <<"VK_KHR_external_memory_fd">>
            ELSE <<>>)

REQUIRED_EXTENSIONS_BEFORE_1_2 ==
    <<"VK_KHR_timeline_semaphore", "VK_EXT_host_query_reset",
      "VK_KHR_8bit_storage", "VK_KHR_shader_float_controls",
      "VK_KHR_sampler_mirror_clamp_to_edge", "VK_KHR_driver_properties">>

REQUIRED_EXTENSIONS_BEFORE_1_3 ==
    <<"VK_EXT_shader_demote_to_helper_invocation">>

VK_KHR_SWAPCHAIN_EXTENSION_NAME == "VK_KHR_swapchain"

ExtensionsRequiredForInstanceVersion(platform, available_version) ==
    REQUIRED_EXTENSIONS(platform)
        \o (IF available_version < VK_API_VERSION_1_2
            THEN REQUIRED_EXTENSIONS_BEFORE_1_2 ELSE <<>>)
        \o (IF available_version < VK_API_VERSION_1_3
            THEN REQUIRED_EXTENSIONS_BEFORE_1_3 ELSE <<>>)

Range(seq) == {seq[i] : i \in DOMAIN seq}

\* limits_report: the minimum and the limit it is compared with
LimitsReport ==
    <<[minimum |-> 65536, name |-> "maxUniformBufferRange"],
      [minimum |-> 16, name |-> "maxViewports"],
      [minimum |-> 8, name |-> "maxColorAttachments"],
      [minimum |-> 8, name |-> "maxClipDistances"]>>

\* feature_report
FeatureReport ==
    <<"robustBufferAccess", "vertexPipelineStoresAndAtomics",
      "imageCubeArray", "independentBlend", "depthClamp",
      "samplerAnisotropy", "largePoints", "multiViewport", "depthBiasClamp",
      "fillModeNonSolid", "wideLines", "geometryShader",
      "tessellationShader", "sampleRateShading", "dualSrcBlend", "logicOp",
      "occlusionQueryPrecise", "fragmentStoresAndAtomics",
      "shaderImageGatherExtended", "shaderStorageImageWriteWithoutFormat",
      "shaderClipDistance", "shaderCullDistance", "variablePointers",
      "variablePointersStorageBuffer", "robustBufferAccess2",
      "robustImageAccess2", "nullDescriptor",
      "shaderDemoteToHelperInvocation", "timelineSemaphore",
      "storageBuffer16BitAccess", "uniformAndStorageBuffer16BitAccess",
      "uniformAndStorageBuffer8BitAccess", "hostQueryReset",
      "shaderDrawParameters">>

\* the extension loop: has_all_required_extensions
HasAllRequiredExtensions(dev, requires_swapchain) ==
    LET required_extensions ==
            ExtensionsRequiredForInstanceVersion(dev.platform,
                                                 dev.instance_version)
                \o (IF requires_swapchain
                    THEN <<VK_KHR_SWAPCHAIN_EXTENSION_NAME>> ELSE <<>>)
    IN \A i \in DOMAIN required_extensions :
          \E extension_name \in dev.available_extensions :
              required_extensions[i] = extension_name

\* a faulty limit loop that lets a limit one below its minimum pass
LimitsLoopPassesOffByOne(dev) ==
    \A i \in DOMAIN LimitsReport :
        ~(dev.limits[LimitsReport[i].name] + 1 < LimitsReport[i].minimum)

\* the limit loop runs to its end: no tuple has value < minimum
LimitsLoopPasses(dev) ==
    \A i \in DOMAIN LimitsReport :
        ~(dev.limits[LimitsReport[i].name] < LimitsReport[i].minimum)

\* the feature loop: has_all_required_features
HasAllRequiredFeatures(dev) ==
    \A i \in DOMAIN FeatureReport : FeatureReport[i] \in dev.features

\* Device::CheckSuitability(requires_swapchain): how it ends
CheckSuitability(dev, requires_swapchain) ==
    IF ~HasAllRequiredExtensions(dev, requires_swapchain)
    THEN [threw |-> TRUE, error |-> "VK_ERROR_EXTENSION_NOT_PRESENT"]
    ELSE IF ~LimitsLoopPasses(dev)
    THEN [threw |-> TRUE, error |-> "VK_ERROR_FEATURE_NOT_PRESENT"]
    ELSE IF ~HasAllRequiredFeatures(dev)
    THEN [threw |-> TRUE, error |-> "VK_ERROR_FEATURE_NOT_PRESENT"]
    ELSE [threw |-> FALSE, error |-> "none"]

\* every extension name the function can ask for, and one it never asks for
KnownExtensions ==
    UNION {Range(REQUIRED_EXTENSIONS(p)) : p \in Platforms}
        \cup Range(REQUIRED_EXTENSIONS_BEFORE_1_2)
        \cup Range(REQUIRED_EXTENSIONS_BEFORE_1_3)
        \cup {VK_KHR_SWAPCHAIN_EXTENSION_NAME, "VK_KHR_push_descriptor"}

\* a set, the set less one element, or nothing of it
AllButOne(S) == {S, {}} \cup {S \ {x} : x \in S}

\* the limits a physical device reports: each at its minimum, or one or all
\* of them one below
LimitSamples ==
    LET atMinimum == [n \in {LimitsReport[i].name : i \in DOMAIN LimitsReport}
                        |-> (CHOOSE i \in DOMAIN LimitsReport :
                                LimitsReport[i].name = n)]
        Min(n) == LimitsReport[atMinimum[n]].minimum
        names == DOMAIN atMinimum
    IN {[n \in names |-> IF n \in low THEN Min(n) - 1 ELSE Min(n)] :
            low \in AllButOne(names) \cup {{x} : x \in names}}

InitSuit ==
    /\ ResultIdle /\ RangeIdle /\ ValIdle /\ PropIdle
    /\ CmpIdle /\ ScopeIdle /\ ChainIdle /\ ThreadIdle
    /\ devOut = NoDevOut
    /\ \E p \in Platforms,
          v \in {VK_API_VERSION_1_1, VK_API_VERSION_1_2, VK_API_VERSION_1_3},
          ext \in AllButOne(KnownExtensions),
          lim \in LimitSamples,
          feat \in AllButOne(Range(FeatureReport)) :
        device = [member |-> "CheckSuitability", platform |-> p,
                  instance_version |-> v, available_extensions |-> ext,
                  limits |-> lim, features |-> feat]

\* device.CheckSuitability(requires_swapchain)
CallCheckSuitability ==
    \E requires_swapchain \in BOOLEAN :
        /\ device.member = "CheckSuitability"
        /\ devOut.op = "none"
        /\ LET out == CheckSuitability(device, requires_swapchain) IN
            devOut' = [op |-> "CheckSuitability",
                       requires_swapchain |-> requires_swapchain,
                       threw |-> out.threw, error |-> out.error]
        /\ UNCHANGED <<device, resultVars, rangeVars, valVars, propVars,
                       cmpVars, scopeVars, chainVars, threadVars>>

NextSuit == CallCheckSuitability

SpecSuit == InitSuit /\ [][NextSuit]_vars

\* the extensions the device must have for this call
RequiredExtensionNames ==
    Range(ExtensionsRequiredForInstanceVersion(device.platform,
                                               device.instance_version))
        \cup (IF devOut.requires_swapchain
              THEN {VK_KHR_SWAPCHAIN_EXTENSION_NAME} ELSE {})

\* the physical device lacks a required capability
LacksCapability ==
    \/ \E e \in RequiredExtensionNames : e \notin device.available_extensions
    \/ device.limits["maxUniformBufferRange"] < 65536
    \/ device.limits["maxViewports"] < 16
    \/ device.limits["maxColorAttachments"] < 8
    \/ device.limits["maxClipDistances"] < 8
    \/ \E f \in Range(FeatureReport) : f \notin device.features

\* C25: Device::CheckSuitability throws a vk::Exception whenever the physical
\* device lacks a required capability: a required extension for the instance
\* version (the swapchain extension too when requires_swapchain), one of the
\* four minimum limits, or a required feature; it returns normally only when
\* all of them are present.
C25_ThrowsIffLacking ==
    devOut.op = "CheckSuitability" => (devOut.threw <=> LacksCapability)

C25_Witness ==
    /\ devOut.op = "CheckSuitability"
    /\ devOut.requires_swapchain
    /\ VK_KHR_SWAPCHAIN_EXTENSION_NAME \notin device.available_extensions
    /\ device.available_extensions # {}
    /\ devOut.threw
    /\ devOut.error = "VK_ERROR_EXTENSION_NOT_PRESENT"

----------------------------------------------------------------------------
(* Device::SetupFamilies *)

\* the most queue families a physical device reports here
MaxFamilies == 2

\* std::optional<u32>
Nullopt == [has_value |-> FALSE, value |-> 0]
Engaged(x) == [has_value |-> TRUE, value |-> x]

\* a VkQueueFamilyProperties with the answer of GetSurfaceSupportKHR for it
QueueFamilies ==
    [queueCount : {0, 1}, graphics_bit : BOOLEAN, surface_support : BOOLEAN]

QueueFamilyLists ==
    UNION {[1..n -> QueueFamilies] : n \in 0..MaxFamilies}

\* the for loop of SetupFamilies from position index on (index is 0-based);
\* its value is the pair of optionals the loop leaves
RECURSIVE FamiliesLoop(_, _, _, _, _)
FamiliesLoop(families, surface, index, graphics, present) ==
    IF ~(index < Len(families))
    THEN [graphics |-> graphics, present |-> present]
    ELSE IF graphics.has_value /\ (present.has_value \/ ~surface)
    THEN [graphics |-> graphics, present |-> present]
    ELSE LET queue_family == families[index + 1] IN
         IF queue_family.queueCount = 0
         THEN FamiliesLoop(families, surface, index + 1, graphics, present)
         ELSE LET g == IF queue_family.graphics_bit THEN Engaged(index)
                       ELSE graphics
                  p == IF surface /\ queue_family.surface_support
                       THEN Engaged(index) ELSE present
              IN FamiliesLoop(families, surface, index + 1, g, p)

\* *opt: the held value; on a disengaged optional the behaviour is undefined:
\* any value may be read, or the program may stop
Dereference(opt) ==
    IF opt.has_value
    THEN {[trapped |-> FALSE, read_empty |-> FALSE, value |-> opt.value]}
    ELSE {[trapped |-> FALSE, read_empty |-> TRUE, value |-> x] :
              x \in 0..MaxFamilies}
         \cup {[trapped |-> TRUE, read_empty |-> TRUE, value |-> 0]}

\* Device::SetupFamilies(surface): the ways it can end
SetupFamilies(families, surface) ==
    LET found == FamiliesLoop(families, surface, 0, Nullopt, Nullopt)
        Threw == [threw |-> TRUE, trapped |-> FALSE, read_empty |-> FALSE,
                  graphics_family |-> 0, present_family |-> 0]
    IN IF ~found.graphics.has_value THEN {Threw}
       ELSE IF surface /\ ~found.present.has_value THEN {Threw}
       ELSE {[threw |-> FALSE, trapped |-> g.trapped \/ p.trapped,
              read_empty |-> g.read_empty \/ p.read_empty,
              graphics_family |-> g.value, present_family |-> p.value] :
                 g \in Dereference(found.graphics),
                 p \in Dereference(found.present)}

InitFamilies ==
    /\ ResultIdle /\ RangeIdle /\ ValIdle /\ PropIdle
    /\ CmpIdle /\ ScopeIdle /\ ChainIdle /\ ThreadIdle
    /\ devOut = NoDevOut
    /\ \E families \in QueueFamilyLists, surface \in BOOLEAN :
        device = [member |-> "SetupFamilies",
                  queue_family_properties |-> families,
                  surface |-> surface]

\* device.SetupFamilies(surface)
CallSetupFamilies ==
    /\ device.member = "SetupFamilies"
    /\ devOut.op = "none"
    /\ \E out \in SetupFamilies(device.queue_family_properties,
                                device.surface) :
        devOut' = [op |-> "SetupFamilies", threw |-> out.threw,
                   trapped |-> out.trapped, read_empty |-> out.read_empty,
                   graphics_family |-> out.graphics_family,
                   present_family |-> out.present_family]
    /\ UNCHANGED <<device, resultVars, rangeVars, valVars, propVars,
                   cmpVars, scopeVars, chainVars, threadVars>>

NextFamilies == CallSetupFamilies

SpecFamilies == InitFamilies /\ [][NextFamilies]_vars

\* index i (0-based) is a usable family with the graphics bit
GraphicsFound(i) ==
    /\ i < Len(device.queue_family_properties)
    /\ device.queue_family_properties[i + 1].queueCount # 0
    /\ device.queue_family_properties[i + 1].graphics_bit

\* index i (0-based) is a usable family that can present to the surface
PresentFound(i) ==
    /\ device.surface
    /\ i < Len(device.queue_family_properties)
    /\ device.queue_family_properties[i + 1].queueCount # 0
    /\ device.queue_family_properties[i + 1].surface_support

\* C29: Device::SetupFamilies either throws or assigns graphics_family and
\* present_family from indices it actually found; it never reads a present
\* index when none was found, and that includes a null surface.
C29_FamiliesFromFoundIndices ==
    (devOut.op = "SetupFamilies" /\ ~devOut.threw) =>
        /\ ~devOut.read_empty
        /\ ~devOut.trapped
        /\ GraphicsFound(devOut.graphics_family)
        /\ device.surface => PresentFound(devOut.present_family)

----------------------------------------------------------------------------
(* Device::GetSupportedFormat *)

VK_FORMAT_UNDEFINED == "VK_FORMAT_UNDEFINED"

\* namespace Alternatives: each list ends with VK_FORMAT_UNDEFINED
STENCIL8_UINT ==
    <<"VK_FORMAT_D16_UNORM_S8_UINT", "VK_FORMAT_D24_UNORM_S8_UINT",
      "VK_FORMAT_D32_SFLOAT_S8_UINT", VK_FORMAT_UNDEFINED>>
DEPTH24_UNORM_STENCIL8_UINT ==
    <<"VK_FORMAT_D32_SFLOAT_S8_UINT", "VK_FORMAT_D16_UNORM_S8_UINT",
      VK_FORMAT_UNDEFINED>>
DEPTH16_UNORM_STENCIL8_UINT ==
    <<"VK_FORMAT_D24_UNORM_S8_UINT", "VK_FORMAT_D32_SFLOAT_S8_UINT",
      VK_FORMAT_UNDEFINED>>
B5G6R5_UNORM_PACK16 == <<"VK_FORMAT_R5G6B5_UNORM_PACK16", VK_FORMAT_UNDEFINED>>
R4G4_UNORM_PACK8 == <<"VK_FORMAT_R8_UNORM", VK_FORMAT_UNDEFINED>>
R16G16B16_SFLOAT == <<"VK_FORMAT_R16G16B16A16_SFLOAT", VK_FORMAT_UNDEFINED>>
R16G16B16_SSCALED == <<"VK_FORMAT_R16G16B16A16_SSCALED", VK_FORMAT_UNDEFINED>>
R8G8B8_SSCALED == <<"VK_FORMAT_R8G8B8A8_SSCALED", VK_FORMAT_UNDEFINED>>

\* the null pointer GetFormatAlternatives returns for the default case
NoAlternatives == <<>>

GetFormatAlternatives(format) ==
    CASE format = "VK_FORMAT_S8_UINT" -> STENCIL8_UINT
      [] format = "VK_FORMAT_D24_UNORM_S8_UINT" -> DEPTH24_UNORM_STENCIL8_UINT
      [] format = "VK_FORMAT_D16_UNORM_S8_UINT" -> DEPTH16_UNORM_STENCIL8_UINT
      [] format = "VK_FORMAT_B5G6R5_UNORM_PACK16" -> B5G6R5_UNORM_PACK16
      [] format = "VK_FORMAT_R4G4_UNORM_PACK8" -> R4G4_UNORM_PACK8
      [] format = "VK_FORMAT_R16G16B16_SFLOAT" -> R16G16B16_SFLOAT
      [] format = "VK_FORMAT_R16G16B16_SSCALED" -> R16G16B16_SSCALED
      [] format = "VK_FORMAT_R8G8B8_SSCALED" -> R8G8B8_SSCALED
      [] OTHER -> NoAlternatives

FormatTypes == {"Linear", "Optimal", "Buffer"}

GetFormatFeatures(properties, format_type) ==
    CASE format_type = "Linear" -> properties.linearTilingFeatures
      [] format_type = "Optimal" -> properties.optimalTilingFeatures
      [] format_type = "Buffer" -> properties.bufferFeatures
      [] OTHER -> {}

\* the formats with an alternatives list
WithAlternatives ==
    {"VK_FORMAT_S8_UINT", "VK_FORMAT_D24_UNORM_S8_UINT",
     "VK_FORMAT_D16_UNORM_S8_UINT", "VK_FORMAT_B5G6R5_UNORM_PACK16",
     "VK_FORMAT_R4G4_UNORM_PACK8", "VK_FORMAT_R16G16B16_SFLOAT",
     "VK_FORMAT_R16G16B16_SSCALED", "VK_FORMAT_R8G8B8_SSCALED"}

\* the formats of GetFormatProperties (the keys of format_properties) that
\* matter here: those with a list, the alternatives, and one with neither
QueriedFormats ==
    WithAlternatives
        \cup UNION {Range(GetFormatAlternatives(f)) \ {VK_FORMAT_UNDEFINED} :
                        f \in WithAlternatives}
        \cup {"VK_FORMAT_R8G8B8A8_UNORM"}

\* the formats a caller asks for: the queried ones and one that
\* GetFormatProperties does not query
WantedFormats == QueriedFormats \cup {"VK_FORMAT_R64_SFLOAT"}

\* VkFormatFeatureFlags as the set of its bits
UsageBits ==
    {"VK_FORMAT_FEATURE_SAMPLED_IMAGE_BIT",
     "VK_FORMAT_FEATURE_DEPTH_STENCIL_ATTACHMENT_BIT"}

NoFeatures ==
    [linearTilingFeatures |-> {}, optimalTilingFeatures |-> {},
     bufferFeatures |-> {}]

\* what the physical device answers to GetFormatProperties for one format
PropertySamples ==
    {NoFeatures,
     [linearTilingFeatures |-> UsageBits, optimalTilingFeatures |-> UsageBits,
      bufferFeatures |-> UsageBits],
     [NoFeatures EXCEPT !.linearTilingFeatures = UsageBits],
     [NoFeatures EXCEPT !.optimalTilingFeatures = UsageBits],
     [NoFeatures EXCEPT !.bufferFeatures = UsageBits]}
      \cup {[linearTilingFeatures |-> {b}, optimalTilingFeatures |-> {c},
             bufferFeatures |-> {b}] : b, c \in UsageBits}

\* Device::IsFormatSupported; unimplemented tells that UNIMPLEMENTED_MSG fired
IsFormatSupported(props, wanted_format, wanted_usage, format_type) ==
    IF wanted_format \notin DOMAIN props
    THEN [value |-> TRUE, unimplemented |-> TRUE]
    ELSE LET supported_usage ==
                 GetFormatFeatures(props[wanted_format], format_type)
         IN [value |-> (supported_usage \cap wanted_usage) = wanted_usage,
             unimplemented |-> FALSE]

\* ASSERT_MSG(false, ...) / UNIMPLEMENTED_MSG: the program stops there, or the
\* failure is only reported and the function goes on to the given end
AssertFalseThen(outcomes) ==
    {[returned |-> FALSE, asserted |-> TRUE, value |-> VK_FORMAT_UNDEFINED]}
        \cup {[o EXCEPT !.asserted = TRUE] : o \in outcomes}

ReturnFormat(format) ==
    [returned |-> TRUE, asserted |-> FALSE, value |-> format]

\* a faulty loop that keeps looking and returns the last supported alternative
RECURSIVE AlternativesLoopLast(_, _, _, _, _)
AlternativesLoopLast(props, alternatives, i, wanted_usage, format_type) ==
    LET alternative == alternatives[i + 1] IN
    IF alternative = VK_FORMAT_UNDEFINED
    THEN {}
    ELSE LET later == AlternativesLoopLast(props, alternatives, i + 1,
                                           wanted_usage, format_type)
             supported == IsFormatSupported(props, alternative, wanted_usage,
                                            format_type)
         IN IF later # {} THEN later
            ELSE IF supported.value THEN {ReturnFormat(alternative)}
            ELSE {}

\* the for loop of GetSupportedFormat from alternatives[i] on; the empty set
\* tells that the loop ran to the terminating VK_FORMAT_UNDEFINED
RECURSIVE AlternativesLoop(_, _, _, _, _)
AlternativesLoop(props, alternatives, i, wanted_usage, format_type) ==
    LET alternative == alternatives[i + 1] IN
    IF alternative = VK_FORMAT_UNDEFINED
    THEN {}
    ELSE LET supported == IsFormatSupported(props, alternative, wanted_usage,
                                            format_type)
             found == {ReturnFormat(alternative)}
         IN IF ~supported.value
            THEN AlternativesLoop(props, alternatives, i + 1, wanted_usage,
                                  format_type)
            ELSE IF supported.unimplemented THEN AssertFalseThen(found)
            ELSE found

\* Device::GetSupportedFormat: the ways it can end
GetSupportedFormat(props, wanted_format, wanted_usage, format_type) ==
    LET wanted == IsFormatSupported(props, wanted_format, wanted_usage,
                                    format_type)
        alternatives == GetFormatAlternatives(wanted_format)
    IN IF wanted.value
       THEN IF wanted.unimplemented
            THEN AssertFalseThen({ReturnFormat(wanted_format)})
            ELSE {ReturnFormat(wanted_format)}
       ELSE IF alternatives = NoAlternatives
       THEN AssertFalseThen({ReturnFormat(wanted_format)})
       ELSE LET found == AlternativesLoop(props, alternatives, 0,
                                          wanted_usage, format_type)
            IN IF found # {} THEN found
               ELSE AssertFalseThen({ReturnFormat(wanted_format)})

\* the formats one call looks at
Consulted(wanted_format) ==
    ({wanted_format} \cup Range(GetFormatAlternatives(wanted_format)))
        \cap QueriedFormats

InitFormat ==
    /\ ResultIdle /\ RangeIdle /\ ValIdle /\ PropIdle
    /\ CmpIdle /\ ScopeIdle /\ ChainIdle /\ ThreadIdle
    /\ devOut = NoDevOut
    /\ \E wanted_format \in WantedFormats,
          wanted_usage \in SUBSET UsageBits,
          format_type \in FormatTypes :
        \E answers \in [Consulted(wanted_format) -> PropertySamples] :
            device = [member |-> "GetSupportedFormat",
                      format_properties |->
                          [f \in QueriedFormats |->
                              IF f \in DOMAIN answers THEN answers[f]
                              ELSE NoFeatures],
                      wanted_format |-> wanted_format,
                      wanted_usage |-> wanted_usage,
                      format_type |-> format_type]

\* device.GetSupportedFormat(wanted_format, wanted_usage, format_type)
CallGetSupportedFormat ==
    /\ device.member = "GetSupportedFormat"
    /\ devOut.op = "none"
    /\ \E out \in GetSupportedFormat(device.format_properties,
                                     device.wanted_format,
                                     device.wanted_usage,
                                     device.format_type) :
        devOut' = [op |-> "GetSupportedFormat", returned |-> out.returned,
                   asserted |-> out.asserted, value |-> out.value]
    /\ UNCHANGED <<device, resultVars, rangeVars, valVars, propVars,
                   cmpVars, scopeVars, chainVars, threadVars>>

NextFormat == CallGetSupportedFormat

SpecFormat == InitFormat /\ [][NextFormat]_vars

\* the host hardware supports format f for the call's usage and type
HostSupports(f) ==
    /\ f \in DOMAIN device.format_properties
    /\ LET p == device.format_properties[f] IN
        device.wanted_usage \subseteq
            (CASE device.format_type = "Linear" -> p.linearTilingFeatures
               [] device.format_type = "Optimal" -> p.optimalTilingFeatures
               [] device.format_type = "Buffer" -> p.bufferFeatures)

\* wanted's alternatives list without its terminator (empty when it has none)
AlternativesOfWanted ==
    SelectSeq(GetFormatAlternatives(device.wanted_format),
              LAMBDA f : f # VK_FORMAT_UNDEFINED)

SupportedAlternatives ==
    {i \in DOMAIN AlternativesOfWanted : HostSupports(AlternativesOfWanted[i])}

\* C30: Device::GetSupportedFormat returns wanted when it is supported;
\* otherwise the first supported format, in table order, of wanted's
\* alternatives list; it reaches an assertion failure only when wanted has no
\* alternatives list or none of the alternatives is supported, and it then
\* returns wanted. Every value returned without asserting is supported.
C30_FirstSupportedFormat ==
    devOut.op = "GetSupportedFormat" =>
        /\ HostSupports(device.wanted_format) =>
              /\ devOut.returned /\ ~devOut.asserted
              /\ devOut.value = device.wanted_format
        /\ (~HostSupports(device.wanted_format)
                /\ SupportedAlternatives # {}) =>
              /\ devOut.returned /\ ~devOut.asserted
              /\ \E i \in SupportedAlternatives :
                    /\ \A j \in SupportedAlternatives : i <= j
                    /\ devOut.value = AlternativesOfWanted[i]
        /\ devOut.asserted =>
              /\ ~HostSupports(device.wanted_format)
              /\ SupportedAlternatives = {}
              /\ devOut.returned => devOut.value = device.wanted_format
        /\ (devOut.returned /\ ~devOut.asserted) => HostSupports(devOut.value)

C30_Witness ==
    /\ devOut.op = "GetSupportedFormat"
    /\ device.wanted_format = "VK_FORMAT_S8_UINT"
    /\ ~HostSupports(device.wanted_format)
    /\ ~HostSupports("VK_FORMAT_D16_UNORM_S8_UINT")
    /\ HostSupports("VK_FORMAT_D24_UNORM_S8_UINT")
    /\ HostSupports("VK_FORMAT_D32_SFLOAT_S8_UINT")
    /\ devOut.returned
    /\ devOut.value = "VK_FORMAT_D24_UNORM_S8_UINT"

====
